---- MODULE Spec2Model ----
(***************************************************************************)
(* Acquisition engine of the VIA payload firmware: the AvaSpec USB driver  *)
(* (AvaSpecDriver/src/AvaSpec.cpp) driven by performMeasurement()          *)
(* (AvaSpecDriver/src/main.cpp).                                           *)
(*                                                                         *)
(* The foreground (performMeasurement) is cut at its blocking waits and    *)
(* delays; the inbound completion callback (process_rx_data) runs in       *)
(* interrupt context and may fire between any two foreground steps while   *)
(* an inbound transfer is queued.  Time is abstracted: a bounded wait may  *)
(* end at any moment (deadline expiry), and the 10 s acquisition window is *)
(* a fixed number of 100 ms poll iterations.                               *)
(*                                                                         *)
(* rx_buffer and the frame buffers are tracked at the Probes offsets of    *)
(* every 512-byte block.  Every copy of the code starts at a block         *)
(* boundary, so a tracked byte always holds exactly the value the program  *)
(* stores at that address.                                                 *)
(***************************************************************************)
EXTENDS Integers, Sequences, FiniteSets, TLC

\* ------------------------------------------------------------------------
\* Program constants
\* ------------------------------------------------------------------------
BUF_SIZE == 512
MEAS_SIZE == 4106

CMD_IDENT == 19     \* 0x13
CMD_PREPARE == 5    \* 0x05
CMD_START == 6      \* 0x06
CMD_STOP == 15      \* 0x0F
CMD_ACK == 192      \* 0xC0
MARK_21 == 33       \* 0x21
MARK_B1 == 177      \* 0xB1

\* ------------------------------------------------------------------------
\* Bounds of the model
\* ------------------------------------------------------------------------
\* poll iterations of the acquisition window (10000 ms / 100 ms in the code)
AcqPolls == 8
\* measurement cycles explored
MaxCycles == 1
\* clock units of one delay(10) of loop(): the scheduler tick
TickLen == 2
\* clock units of the 30 s auto-mode interval
IntervalLen == 6
\* clock units of the default 100 s auto-mode interval
DefaultInterval == 20
\* the console loop is explored up to this clock reading
MaxClock == 24
MaxClaims == 2
MaxEncodes == 3
\* command lines processed by the UART bridge
MaxRequests == 2
\* the largest file transferred, in bytes
MaxFile == 5
\* FILE_CHUNK_SIZE of OBCBridge.h, scaled to the files explored
FILE_CHUNK == 2
WindowPolls == 2

VARIABLES
    pc,               \* position of the foreground in performMeasurement
    rx_buffer,        \* AvaSpec::rx_buffer
    rx_data_ready,    \* AvaSpec::rx_data_ready
    tx_buffer,        \* AvaSpec::tx_buffer
    messageFound,     \* AvaSpec::messageFound
    measAmount,       \* AvaSpec::measAmount (uint8_t)
    measurement,      \* AvaSpec::measurement
    appendIndex,      \* AvaSpec::appendIndex
    rxPending,        \* inbound transfers queued on rxpipe, not yet completed
    sent,             \* command ids queued on txpipe in the current cycle
    polls,            \* iterations of the acquisition loop done so far
    measurementCount, \* main.cpp measurementCount
    lastMeasurement,  \* main.cpp lastMeasurement
    hasMeasurement,   \* main.cpp hasMeasurement
    logged,           \* what measurementAcknowledgement last dumped/logged
    copies,           \* <<offset, length>> of the copies of the last callback
    fed,              \* chunks taken into the frame since the last reset
    dev,              \* the device: frame being streamed and what it owes
    rxSeen,           \* the last completed transfer: assembler idle, marker found
    usb,              \* AvaSpec::tx_ep, rx_ep, rx_size, tx_size, rxpipe, txpipe
    enqs,             \* the queue_Data_Transfer calls of the last command step
    useSD,            \* main.cpp useSD
    logFile,          \* Logger.cpp logFile: the handle is open
    logFileOpen,      \* performMeasurement logFileOpen
    fileLog,          \* what was appended to the log file of this measurement
    warned,           \* the failed-open warning was printed for this measurement
    now,              \* millis(), in clock units
    lp,               \* position of the foreground in loop()
    inbox,            \* the console line waiting in the serial buffer
    autoMode,         \* main.cpp autoMode
    autoInterval,     \* main.cpp autoInterval
    lastMeasurementTime, \* main.cpp lastMeasurementTime
    currentTime,      \* the local currentTime of loop()
    inFlight,         \* calls of performMeasurement that have not returned
    starts,           \* clock readings at which auto mode started a measurement
    autoSince,        \* clock reading at which auto mode was enabled
    autoClean,        \* no other measurement was requested since auto mode was enabled
    claimIn,          \* the arguments of the last claim() call
    claimRet,         \* what the last claim() call returned
    claimCalls,       \* claim() calls made so far
    bytesReceived,    \* readFullMeasurement: bytesReceived (polling driver)
    measurementCounter, \* AvaSpec::measurementCounter (polling driver)
    hexN,             \* printBuffer / logMeasurement: n
    hexPat,           \* the buffer passed: which of the byte patterns
    hexI,             \* the loop index i
    hexLine,          \* the characters written to the line now open
    hexLens,          \* the characters the dump wrote to each line it closed
    hexDone,          \* the dump function has returned
    csvPat,           \* the frame written as CSV: which of the byte patterns
    csvOpen,          \* SD.open(csvFilename, FILE_WRITE) gave a file
    csvI,             \* the loop index i of the CSV loop
    csvRow,           \* the characters of the line written last
    csvLines,         \* lines written to the CSV file so far
    csvHigh,          \* the highest frame offset read so far (-1: none)
    csvDone,          \* the CSV step is over
    txPending,        \* outbound transfers queued on txpipe, not yet completed
    txLen,            \* length of the outbound transfer queued last
    fpc,              \* OBCBridge: where transferFile is
    fName,            \* the file name of the request
    fSize,            \* dataFile.size()
    fPat,             \* the contents of the file (a byte pattern)
    fLeft,            \* dataFile.available()
    fHex,             \* the characters printed on the data line so far
    uart,             \* the lines sent on Serial1 for the request
    requests,         \* command lines processed
    natI,             \* native simulation: index of the dump loop
    natLine,          \* native simulation: the line open on stdout
    natLens,          \* native simulation: lengths of the dump lines ended
    natRows,          \* native simulation: rows of the CSV block printed
    natDone,          \* native simulation: the measurement output is over
    radioAvailable,   \* initRadio() succeeded
    rpc,              \* transmitViaRadio: position ("idle", "data", "done")
    rLen,             \* transmitViaRadio: the argument len
    rSent,            \* transmitViaRadio: the local sent
    rAir,             \* the packets handed to rf22.send(), in order
    seconds,          \* processCommand: the value parsed from "auto <seconds>"
    intervalMs        \* autoInterval in milliseconds, as the firmware holds it:
                      \* the two 16-bit halves of the unsigned long

\* the driver and the measurement sequence
drvVars == <<pc, rx_buffer, rx_data_ready, tx_buffer, messageFound, measAmount,
             measurement, appendIndex, rxPending, sent, polls, measurementCount,
             lastMeasurement, hasMeasurement, logged, copies, fed, dev>>

\* the persistence collaborator
sdVars == <<useSD, logFile, logFileOpen, fileLog, warned>>

\* the measurement cycle: driver, pipes, storage
cycleVars == <<drvVars, rxSeen, usb, enqs, sdVars>>

\* the console loop and the auto-mode scheduler
conVars == <<now, lp, inbox, autoMode, autoInterval, lastMeasurementTime,
             currentTime, inFlight, starts, autoSince, autoClean>>

\* the enumeration of a device by the USB host
clmVars == <<claimIn, claimRet, claimCalls>>

\* the polling driver: what it has besides the members above
pollVars == <<bytesReceived, measurementCounter>>

\* what the measurement cycle leaves alone
\* the hex dump in progress
hexVars == <<hexN, hexPat, hexI, hexLine, hexLens, hexDone>>

\* the CSV file of a frame being written
csvVars == <<csvPat, csvOpen, csvI, csvRow, csvLines, csvHigh, csvDone>>

\* the format and protocol steps modelled on their own
\* the outbound pipe
txVars == <<txPending, txLen>>

\* the file transfer of the UART bridge
fileVars == <<fpc, fName, fSize, fPat, fLeft, fHex, uart, requests>>

\* the measurement output of the native simulation
natVars == <<natI, natLine, natLens, natRows, natDone>>

\* the radio downlink of a frame
radVars == <<radioAvailable, rpc, rLen, rSent, rAir>>

\* the period of the auto mode in milliseconds
ivVars == <<seconds, intervalMs>>

moreVars == <<csvVars, txVars, fileVars, natVars, radVars, ivVars>>

sideVars == <<conVars, clmVars, pollVars, hexVars, moreVars>>

\* the cycle, the console, the enumeration, the polling driver and the dump
baseVars == <<cycleVars, conVars, clmVars, pollVars, hexVars>>

\* what the CSV step leaves alone
csvRest == <<baseVars, txVars, fileVars, natVars, radVars, ivVars>>

\* what the UART bridge leaves alone
fileRest == <<baseVars, csvVars, txVars, natVars, radVars, ivVars>>

\* what the native simulation leaves alone
natRest == <<cycleVars, conVars, clmVars, pollVars, hexVars, csvVars, txVars,
             fileVars, radVars, ivVars>>

\* what the radio downlink leaves alone
radRest == <<baseVars, csvVars, txVars, fileVars, natVars, ivVars>>

\* what the parsing of the auto command leaves alone
ivRest == <<baseVars, csvVars, txVars, fileVars, natVars, radVars>>

\* what the command functions leave alone on their outbound side
txRest == <<rx_buffer, rx_data_ready, messageFound, measAmount, measurement,
            appendIndex, rxPending, polls, measurementCount, lastMeasurement,
            hasMeasurement, logged, copies, fed, dev, rxSeen, usb, enqs, sdVars,
            conVars, clmVars, pollVars, hexVars, csvVars, fileVars,
            natVars, radVars, ivVars>>

\* what loop() and processCommand() leave alone
conRest == <<cycleVars, clmVars, pollVars, hexVars, moreVars>>

\* what claim() leaves alone whatever it returns
clmRest == <<drvVars, rxSeen, enqs, sdVars, conVars, pollVars, hexVars,
             moreVars>>

\* what the polling driver and its loop() never write
pollRest == <<measurementCount, lastMeasurement, hasMeasurement, logged, copies,
              fed, rxSeen, usb, useSD, logFileOpen, warned, conVars, clmVars,
              hexVars, moreVars>>

vars == <<cycleVars, sideVars>>

\* ------------------------------------------------------------------------
\* Buffers
\* ------------------------------------------------------------------------
\* offsets tracked in every 512-byte block: the two marker positions, the
\* last byte of the 10-byte remainder, the first byte after it, the last byte
Probes == {0, 4, 9, 10, 511}

Tracked(n) == {i \in 0..(n - 1) : (i % BUF_SIZE) \in Probes}

\* memset(buf, 0, n) of a chunk-sized or frame-sized buffer
Zeros(n) == [i \in Tracked(n) |-> 0]

\* tx_buffer is tracked over the bytes of the longest command frame; the
\* code never stores a non-zero byte above them
TX_TRACK == 47

\* memset(tx_buffer, 0, BUF_SIZE)
ZeroTx == [i \in 0..(TX_TRACK - 1) |-> 0]

\* memcpy(&dst[off], src, n)
Memcpy(dst, off, src, n) ==
    [i \in DOMAIN dst |-> IF i >= off /\ i < off + n THEN src[i - off] ELSE dst[i]]

\* tx_buffer[0..Len(bytes)-1] = bytes
SetBytes(buf, bytes) ==
    [i \in DOMAIN buf |-> IF i < Len(bytes) THEN bytes[i + 1] ELSE buf[i]]

\* ------------------------------------------------------------------------
\* The device
\* ------------------------------------------------------------------------
\* The reference frame: byte 0 carries the 0x21 marker, every other byte is
\* a tag of its chunk and of its place in the chunk.  A marked frame also
\* holds the value 0x21 at byte 0 of chunk 3 and the value 0xB1 at byte 4 of
\* chunk 5 (pixel data may hold any byte).
RefByte(marked, i) ==
    LET c == i \div BUF_SIZE
        o == i % BUF_SIZE
    IN  IF i = 0 THEN MARK_21
        ELSE IF marked /\ c = 3 /\ o = 0 THEN MARK_21
        ELSE IF marked /\ c = 5 /\ o = 4 THEN MARK_B1
        ELSE 16 * (c + 1) + (o % 16)

RefFrame(marked) == [i \in Tracked(MEAS_SIZE) |-> RefByte(marked, i)]

NumChunks == (MEAS_SIZE + BUF_SIZE - 1) \div BUF_SIZE

ChunkLen(k) == IF (k + 1) * BUF_SIZE <= MEAS_SIZE THEN BUF_SIZE ELSE MEAS_SIZE - k * BUF_SIZE

\* chunk k of the frame as one completed inbound transfer
RefChunk(marked, k) ==
    [len |-> ChunkLen(k),
     bytes |-> [i \in Tracked(ChunkLen(k)) |-> RefByte(marked, k * BUF_SIZE + i)]]

\* the 6-byte response header the device returns for a command
Response(cmd) ==
    [len |-> 6,
     bytes |-> [i \in Tracked(6) |-> CASE i = 0 -> MARK_21
                                 [] i = 2 -> 2
                                 [] i = 4 -> (cmd + 128) % 256
                                 [] OTHER -> 0]]

\* what the device may put into the next completed inbound transfer (the
\* inbound pipe is FIFO): the response it owes for the last command, else
\* the next chunk of the frame once a measurement was started.  Each offer
\* comes with the device state after delivering it.
DeviceOffers(d) ==
    IF d.owes # 0
      THEN {[chunk |-> Response(d.owes), after |-> [d EXCEPT !.owes = 0]]}
    ELSE IF d.started /\ d.idx < NumChunks
      THEN {[chunk |-> RefChunk(d.marked, d.idx), after |-> [d EXCEPT !.idx = d.idx + 1]]}
    ELSE {}

\* the device on receiving a command: it answers or stays silent (answer);
\* the acknowledgement is never answered; Start arms one measurement frame,
\* Stop aborts it
DeviceOnCommand(d, cmd, answer) ==
    [d EXCEPT !.owes = IF cmd = CMD_ACK THEN d.owes ELSE IF answer THEN cmd ELSE 0,
              !.started = IF cmd = CMD_START THEN TRUE
                          ELSE IF cmd = CMD_STOP THEN FALSE ELSE d.started,
              !.idx = IF cmd = CMD_START THEN 0 ELSE d.idx]

\* ------------------------------------------------------------------------
\* AvaSpec driver
\* ------------------------------------------------------------------------
AV_VID == 6546      \* 0x1992
AV_PID == 1640      \* 0x0668
DESC_LEN == 23

\* a pipe pointer that was never assigned (the driver object is a global)
NoPipe == [open |-> FALSE, ep |-> 0, dir |-> 0, size |-> 0, callback |-> "none"]

\* new_Pipe(dev, 2, ep, dir, size) followed by the callback assignment
NewPipe(ep, dir, size, cb) ==
    [open |-> TRUE, ep |-> ep, dir |-> dir, size |-> size, callback |-> cb]

\* the pipe members of the driver object before any claim
UsbInit ==
    [tx_ep |-> 0, rx_ep |-> 0, rx_size |-> 0, tx_size |-> 0,
     rxpipe |-> NoPipe, txpipe |-> NoPipe]

\* a claim that accepts any descriptor length
ClaimAccepts_AnyLength(d) == d.vid = AV_VID /\ d.pid = AV_PID

\* the two early returns of AvaSpec::claim
ClaimAccepts(d) == d.len = DESC_LEN /\ d.vid = AV_VID /\ d.pid = AV_PID

\* AvaSpec::claim(dev, type, descriptors, len): the value returned and the
\* pipe members afterwards; d holds the device ids, the descriptor length
\* and the descriptor bytes the function reads
Claim(u, d) ==
    IF ClaimAccepts(d)
      THEN [ret |-> TRUE,
            usb |-> [tx_ep |-> d.desc11, rx_ep |-> d.desc18,
                     rx_size |-> BUF_SIZE, tx_size |-> BUF_SIZE,
                     rxpipe |-> NewPipe(6, 1, BUF_SIZE, "rx_callback"),
                     txpipe |-> NewPipe(2, 0, BUF_SIZE, "tx_callback")]]
      ELSE [ret |-> FALSE, usb |-> u]

\* the spectrometer as the host stack presents it to claim()
RefDevice ==
    [type |-> 0, len |-> DESC_LEN, vid |-> AV_VID, pid |-> AV_PID,
     desc11 |-> 2, desc18 |-> 134, mps |-> BUF_SIZE]

\* queue_Data_Transfer(rxpipe, ...): one more inbound transfer in flight;
\* the request is dropped when no transfer descriptor is free
MaxPending == 3
QueueRx(n) == IF n < MaxPending THEN n + 1 ELSE n

\* one call of queue_Data_Transfer: the pipe, whether it is made between
\* __disable_irq() and __enable_irq(), and whether an inbound transfer
\* queued earlier may still complete
Enq(pipe, masked, inflight) == [pipe |-> pipe, masked |-> masked, racing |-> inflight > 0]

\* process_rx_data taking every chunk as a frame start
ProcessRxData_NoMarkerTest(rx0, mf0, ma0, m0, c) ==
    LET rx1 == Memcpy(rx0, 0, c.bytes, c.len)
    IN  [rx |-> rx1, mf |-> TRUE, ma |-> (ma0 + 1) % 256,
         m |-> Memcpy(m0, 0, rx1, 512), cp |-> <<(<<0, 512>>)>>]

\* process_rx_data with the unbounded boundary copy: a full chunk is copied
\* into the slot of the 10-byte remainder
ProcessRxData_Legacy(rx0, mf0, ma0, m0, c) ==
    LET rx1 == Memcpy(rx0, 0, c.bytes, c.len)
        marker == rx1[0] = MARK_21 \/ rx1[4] = MARK_B1
        m1 == IF marker THEN Memcpy(m0, 0, rx1, 512) ELSE m0
        mf1 == mf0 \/ marker
        ma1 == IF marker THEN (ma0 + 1) % 256 ELSE ma0
        cp1 == IF marker THEN <<(<<0, 512>>)>> ELSE <<>>
    IN  IF mf1 /\ ma1 <= 8
          THEN [rx |-> rx1, mf |-> mf1, ma |-> ma1 + 1,
                m |-> Memcpy(m1, ma1 * 512, rx1, 512),
                cp |-> Append(cp1, <<ma1 * 512, 512>>)]
        ELSE [rx |-> rx1, mf |-> mf1, ma |-> ma1, m |-> m1, cp |-> cp1]

\* AvaSpec::process_rx_data: the state of the assembler after the completed
\* transfer c, and the copies into the frame buffer it made
ProcessRxData(rx0, mf0, ma0, m0, c) ==
    LET rx1 == Memcpy(rx0, 0, c.bytes, c.len)
        marker == rx1[0] = MARK_21 \/ rx1[4] = MARK_B1
        m1 == IF marker THEN Memcpy(m0, 0, rx1, 512) ELSE m0
        mf1 == mf0 \/ marker
        ma1 == IF marker THEN (ma0 + 1) % 256 ELSE ma0
        cp1 == IF marker THEN <<(<<0, 512>>)>> ELSE <<>>
    IN  IF mf1 /\ ma1 = 8
          THEN [rx |-> rx1, mf |-> mf1, ma |-> 9,
                m |-> Memcpy(m1, ma1 * 512, rx1, 10),
                cp |-> Append(cp1, <<ma1 * 512, 10>>)]
        ELSE IF mf1 /\ ma1 < 8
          THEN [rx |-> rx1, mf |-> mf1, ma |-> ma1 + 1,
                m |-> Memcpy(m1, ma1 * 512, rx1, 512),
                cp |-> Append(cp1, <<ma1 * 512, 512>>)]
        ELSE [rx |-> rx1, mf |-> mf1, ma |-> ma1, m |-> m1, cp |-> cp1]

\* command frames as written into tx_buffer
StopFrame == <<32, 0, 2, 0, CMD_STOP, 0>>
IdentFrame == <<32, 0, 2, 0, CMD_IDENT, 0>>
\* a Start frame whose length field counts the payload only
StartFrame_PayloadOnly == <<32, 0, 2, 0, CMD_START, 0, 0, 4>>

StartFrame == <<32, 0, 4, 0, CMD_START, 0, 0, 4>>
AckFrame == <<32, 0, 2, 0, CMD_ACK, 0>>
PrepareFrame == <<32, 0, 43, 0, CMD_PREPARE, 0,
                  0, 0, 7, 255,
                  66, 200, 0, 0,
                  0, 0, 0, 100,
                  0, 0, 0, 1>>

\* the Prepare frame of the polling driver: integration time 40 0D 03 00,
\* no delay, averages 00 00 00 01, software trigger enabled
PollPrepareFrame == <<32, 0, 43, 0, CMD_PREPARE, 0,
                      0, 0, 7, 255,
                      64, 13, 3, 0,
                      0, 0, 0, 0,
                      0, 0, 0, 1,
                      1>>

\* the write position of the assembler: the destination of its next copy
WriteOffset == IF measAmount <= 8 THEN measAmount * 512 ELSE MEAS_SIZE

\* ------------------------------------------------------------------------
\* Initial state: AvaSpec::init() and the globals of main.cpp
\* ------------------------------------------------------------------------
CycleInit ==
    /\ pc = "idle"
    /\ rx_buffer = Zeros(BUF_SIZE)
    /\ tx_buffer = ZeroTx
    /\ rx_data_ready = FALSE
    /\ messageFound = FALSE
    /\ measAmount = 0
    /\ measurement = Zeros(MEAS_SIZE)
    /\ appendIndex = 0
    /\ rxPending = 0
    /\ sent = <<>>
    /\ polls = 0
    /\ measurementCount = 0
    /\ lastMeasurement = Zeros(MEAS_SIZE)
    /\ hasMeasurement = FALSE
    /\ logged = [len |-> 0, amount |-> 0, frame |-> Zeros(MEAS_SIZE)]
    /\ copies = <<>>
    /\ fed = 0
    /\ \E mk \in BOOLEAN :
          dev = [marked |-> mk, idx |-> 0, started |-> FALSE, owes |-> 0]
    /\ usb \in {UsbInit, Claim(UsbInit, RefDevice).usb}
    /\ rxSeen = [idle |-> FALSE, marker |-> FALSE]
    /\ enqs = <<>>
    /\ useSD \in BOOLEAN
    /\ logFile = FALSE
    /\ logFileOpen = FALSE
    /\ fileLog = <<>>
    /\ warned = FALSE

\* the globals of main.cpp read by loop(), at the end of setup()
ConsoleInit ==
    /\ now = 0
    /\ lp = "top"
    /\ inbox = ""
    /\ autoMode = FALSE
    /\ autoInterval = DefaultInterval
    /\ lastMeasurementTime = 0
    /\ currentTime = 0
    /\ inFlight = 0
    /\ starts = <<>>
    /\ autoSince = 0
    /\ autoClean = FALSE

\* no device has been offered to the driver yet
ClaimInit ==
    /\ claimIn = RefDevice
    /\ claimRet = FALSE
    /\ claimCalls = 0

\* the polling driver after init()
PollInit ==
    /\ bytesReceived = 0
    /\ measurementCounter = 0

\* no dump is in progress
DumpIdle ==
    /\ hexN = 0
    /\ hexPat = 0
    /\ hexI = 0
    /\ hexLine = <<>>
    /\ hexLens = <<>>
    /\ hexDone = TRUE

\* no CSV file is being written
CsvIdle ==
    /\ csvPat = 0
    /\ csvOpen = FALSE
    /\ csvI = 0
    /\ csvRow = <<>>
    /\ csvLines = 0
    /\ csvHigh = -1
    /\ csvDone = TRUE

\* none of the steps modelled on their own is in progress
\* no outbound transfer is in flight
TxIdle == txPending = 0 /\ txLen = 0

\* no command line has arrived on the UART
FileIdle ==
    /\ fpc = "idle"
    /\ fName = ""
    /\ fSize = 0
    /\ fPat = 0
    /\ fLeft = 0
    /\ fHex = <<>>
    /\ uart = <<>>
    /\ requests = 0

\* the native simulation is not running
NativeIdle ==
    /\ natI = 0
    /\ natLine = <<>>
    /\ natLens = <<>>
    /\ natRows = 0
    /\ natDone = TRUE

\* no radio transmission is running (the radio is absent)
RadioIdle ==
    /\ radioAvailable = FALSE
    /\ rpc = "idle"
    /\ rLen = 0
    /\ rSent = 0
    /\ rAir = <<>>

\* unsigned long autoInterval = 100000
AUTO_DEFAULT_MS == 100000

\* the 16-bit halves of a number
Halves(n) == [hi |-> n \div 65536, lo |-> n % 65536]

\* no auto command was parsed
IntervalIdle ==
    /\ seconds = 0
    /\ intervalMs = Halves(AUTO_DEFAULT_MS)

MoreIdle == CsvIdle /\ TxIdle /\ FileIdle /\ NativeIdle /\ RadioIdle /\ IntervalIdle

Init == CycleInit /\ ConsoleInit /\ ClaimInit /\ PollInit /\ DumpIdle /\ MoreIdle

\* ------------------------------------------------------------------------
\* Interrupt context: completion of an inbound transfer
\* ------------------------------------------------------------------------
RxComplete ==
    /\ rxPending > 0
    /\ \E o \in DeviceOffers(dev) :
         LET r == ProcessRxData(rx_buffer, messageFound, measAmount, measurement, o.chunk)
         IN  /\ rx_buffer' = r.rx
             /\ rx_data_ready' = TRUE
             /\ messageFound' = r.mf
             /\ measAmount' = r.ma
             /\ measurement' = r.m
             /\ copies' = r.cp
             /\ fed' = IF r.mf THEN fed + 1 ELSE fed
             /\ dev' = o.after
             /\ rxSeen' = [idle |-> ~messageFound,
                           marker |-> r.rx[0] = MARK_21 \/ r.rx[4] = MARK_B1]
    /\ rxPending' = rxPending - 1
    /\ UNCHANGED <<pc, tx_buffer, appendIndex, sent, polls, measurementCount,
                   lastMeasurement, hasMeasurement, logged>>
    /\ UNCHANGED <<usb, enqs, sdVars>>
    /\ UNCHANGED sideVars

\* ------------------------------------------------------------------------
\* Foreground: performMeasurement
\* ------------------------------------------------------------------------
\* where the foreground is after a call of queue_Data_Transfer on pipe p: a
\* call with a pipe that was never opened enters the host library with a
\* null pointer, which either returns or faults (fault)
AfterQueue(p, fault, next) == IF ~p.open /\ fault THEN "halted" ELSE next

\* the common head of the command functions: build the frame, queue it on
\* txpipe with interrupts masked, clear the readiness flag, queue one
\* inbound transfer
SendCommand(txb, cmd, log, next) ==
    /\ tx_buffer' = txb
    /\ sent' = Append(log, cmd)
    /\ enqs' = <<Enq("tx", TRUE, rxPending), Enq("rx", FALSE, rxPending)>>
    /\ rx_data_ready' = FALSE
    /\ IF usb.txpipe.open
         THEN \E answer \in BOOLEAN : dev' = DeviceOnCommand(dev, cmd, answer)
         ELSE dev' = dev
    /\ rxPending' = IF usb.rxpipe.open THEN QueueRx(rxPending) ELSE rxPending
    /\ \E fault \in BOOLEAN : pc' = AfterQueue(usb.txpipe, fault, next)

\* a wait loop that anything ends
WaitEnds_Cancelled(ready, expired) == TRUE

\* a wait loop without its deadline
WaitEnds_NoDeadline(ready, expired) == ready

\* while (!rx_data_ready && (millis() - start_time < T)) delay(1);
WaitEnds(ready, expired) == ready \/ expired

\* the common tail: the wait has ended (response or deadline), both
\* transfer buffers are cleared
EndWait ==
    /\ \E expired \in BOOLEAN : WaitEnds(rx_data_ready, expired)
    /\ tx_buffer' = ZeroTx
    /\ rx_buffer' = Zeros(BUF_SIZE)

\* initializeFile(): the card mounts and the file opens (ok), or not; a
\* failed mount leaves the handle as it was, a failed open leaves it closed
InitializeFile(handle, mounted, opened) ==
    [ret |-> mounted /\ opened,
     logFile |-> IF mounted THEN opened ELSE handle]

\* logMeasurement() without the test of the handle
LogMeasurement_Unchecked(handle, log) == Append(log, "measurement")

\* logMeasurement(): nothing is written unless the handle is open
LogMeasurement(handle, log) == IF handle THEN Append(log, "measurement") ELSE log

\* logString(): nothing is written unless the handle is open
LogString(handle, log, text) == IF handle THEN Append(log, text) ELSE log

\* performMeasurement entry: the log file of the measurement is opened when
\* logging is enabled; then stopMeasurement() up to its wait
BeginCycle ==
    /\ pc = "idle"
    /\ measurementCount < MaxCycles
    /\ measurementCount' = measurementCount + 1
    /\ IF useSD
         THEN \E mounted, opened \in BOOLEAN :
                LET f == InitializeFile(logFile, mounted, opened)
                IN  /\ logFile' = f.logFile
                    /\ logFileOpen' = f.ret
                    /\ warned' = ~f.ret
                    /\ fileLog' = IF f.ret
                                    THEN LogString(f.logFile, <<>>, "started")
                                    ELSE <<>>
         ELSE /\ logFileOpen' = FALSE
              /\ warned' = FALSE
              /\ fileLog' = <<>>
              /\ logFile' = logFile
    /\ SendCommand(SetBytes(ZeroTx, StopFrame), CMD_STOP, <<>>, "stop_wait")
    /\ UNCHANGED <<rx_buffer, messageFound, measAmount, measurement, appendIndex,
                   polls, lastMeasurement, hasMeasurement, logged, copies, fed>>
    /\ UNCHANGED <<usb, rxSeen, useSD>>
    /\ UNCHANGED sideVars

\* stopMeasurement(): end of the wait, buffers cleared; delay(500) follows
StopWaitEnd ==
    /\ pc = "stop_wait"
    /\ EndWait
    /\ pc' = "stop_done"
    /\ UNCHANGED <<rx_data_ready, messageFound, measAmount, measurement, appendIndex,
                   rxPending, sent, polls, measurementCount, lastMeasurement,
                   hasMeasurement, logged, copies, fed, dev>>
    /\ UNCHANGED <<usb, rxSeen, enqs, sdVars>>
    /\ UNCHANGED sideVars

\* the sequence with Identify and Prepare exchanged
StepCommand_Swapped(p) ==
    CASE p = "stop_done" -> CMD_PREPARE
      [] p = "ident_done" -> CMD_START
      [] p = "prep_done" -> CMD_IDENT

\* the command a step of the sequence sends
StepCommand(p) ==
    CASE p = "stop_done" -> CMD_IDENT
      [] p = "ident_done" -> CMD_PREPARE
      [] p = "prep_done" -> CMD_START

StepFrame(cmd) ==
    CASE cmd = CMD_IDENT -> SetBytes(tx_buffer, IdentFrame)
      [] cmd = CMD_PREPARE -> SetBytes(ZeroTx, PrepareFrame)
      [] cmd = CMD_START -> SetBytes(tx_buffer, StartFrame)

StepWait(cmd) ==
    CASE cmd = CMD_IDENT -> "ident_wait"
      [] cmd = CMD_PREPARE -> "prep_wait"
      [] cmd = CMD_START -> "start_wait"

\* getIdentification() / prepareMeasurement() / startMeasurement() up to
\* the wait for the response
SendStep ==
    /\ pc \in {"stop_done", "ident_done", "prep_done"}
    /\ LET cmd == StepCommand(pc)
       IN  SendCommand(StepFrame(cmd), cmd, sent, StepWait(cmd))
    /\ UNCHANGED <<rx_buffer, messageFound, measAmount, measurement, appendIndex,
                   polls, measurementCount, lastMeasurement, hasMeasurement,
                   logged, copies, fed>>
    /\ UNCHANGED <<usb, rxSeen, sdVars>>
    /\ UNCHANGED sideVars

\* getIdentification() / prepareMeasurement(): end of the wait, buffers
\* cleared; delay(1000) follows
StepWaitEnd ==
    /\ pc \in {"ident_wait", "prep_wait"}
    /\ EndWait
    /\ pc' = IF pc = "ident_wait" THEN "ident_done" ELSE "prep_done"
    /\ UNCHANGED <<rx_data_ready, messageFound, measAmount, measurement, appendIndex,
                   rxPending, sent, polls, measurementCount, lastMeasurement,
                   hasMeasurement, logged, copies, fed, dev>>
    /\ UNCHANGED <<usb, rxSeen, enqs, sdVars>>
    /\ UNCHANGED sideVars

\* startMeasurement(): end of the wait; flag and buffers cleared and one
\* more inbound transfer queued for the data
StartWaitEnd ==
    /\ pc = "start_wait"
    /\ EndWait
    /\ rx_data_ready' = FALSE
    /\ enqs' = <<Enq("rx", FALSE, rxPending)>>
    /\ rxPending' = IF usb.rxpipe.open THEN QueueRx(rxPending) ELSE rxPending
    /\ polls' = 0
    /\ \E fault \in BOOLEAN : pc' = AfterQueue(usb.rxpipe, fault, "acq")
    /\ UNCHANGED <<messageFound, measAmount, measurement, appendIndex, sent,
                   measurementCount, lastMeasurement, hasMeasurement, logged,
                   copies, fed, dev>>
    /\ UNCHANGED <<usb, rxSeen, sdVars>>
    /\ UNCHANGED sideVars

\* an acquisition loop that also breaks when the frame is complete
AcqWindowOver_OrComplete(p, ma) == p >= AcqPolls \/ ma = 9

\* the exit test of the acquisition loop: millis() - startTime > 10000
AcqWindowOver(p, ma) == p >= AcqPolls

\* one iteration of the acquisition loop: handleUnsolicitatedData(), delay(100)
AcqPoll ==
    /\ pc = "acq"
    /\ ~AcqWindowOver(polls, measAmount)
    /\ enqs' = <<Enq("rx", FALSE, rxPending)>>
    /\ rxPending' = IF usb.rxpipe.open THEN QueueRx(rxPending) ELSE rxPending
    /\ rx_buffer' = Zeros(BUF_SIZE)
    /\ rx_data_ready' = FALSE
    /\ polls' = polls + 1
    /\ \E fault \in BOOLEAN : pc' = AfterQueue(usb.rxpipe, fault, "acq")
    /\ UNCHANGED <<tx_buffer, messageFound, measAmount, measurement, appendIndex,
                   sent, measurementCount, lastMeasurement, hasMeasurement, logged,
                   copies, fed, dev>>
    /\ UNCHANGED <<usb, rxSeen, sdVars>>
    /\ UNCHANGED sideVars

\* the acquisition loop breaks; measurementAcknowledgement() starts to
\* print the frame buffer
AcqEnd ==
    /\ pc = "acq"
    /\ AcqWindowOver(polls, measAmount)
    /\ pc' = "dump"
    /\ UNCHANGED <<rx_buffer, rx_data_ready, tx_buffer, messageFound, measAmount,
                   measurement, appendIndex, rxPending, sent, polls, measurementCount,
                   lastMeasurement, hasMeasurement, logged, copies, fed, dev>>
    /\ UNCHANGED <<usb, rxSeen, enqs, sdVars>>
    /\ UNCHANGED sideVars

\* measurementAcknowledgement(): printBuffer() and logMeasurement() have
\* read the frame buffer, the acknowledgement is queued; delay(10) follows
Acknowledge ==
    /\ pc = "dump"
    /\ logged' = [len |-> MEAS_SIZE, amount |-> measAmount, frame |-> measurement]
    /\ fileLog' = LogMeasurement(logFile, fileLog)
    /\ tx_buffer' = SetBytes(tx_buffer, AckFrame)
    /\ sent' = Append(sent, CMD_ACK)
    /\ enqs' = <<Enq("tx", TRUE, rxPending)>>
    /\ dev' = DeviceOnCommand(dev, CMD_ACK, FALSE)
    /\ \E fault \in BOOLEAN : pc' = AfterQueue(usb.txpipe, fault, "ack_delay")
    /\ UNCHANGED <<rx_buffer, rx_data_ready, messageFound, measAmount, measurement,
                   appendIndex, rxPending, polls, measurementCount, lastMeasurement,
                   hasMeasurement, copies, fed>>
    /\ UNCHANGED <<usb, rxSeen, useSD, logFile, logFileOpen, warned>>
    /\ UNCHANGED sideVars

\* measurementAcknowledgement(): tx_buffer cleared, assembler state reset
AckReset ==
    /\ pc = "ack_delay"
    /\ tx_buffer' = ZeroTx
    /\ messageFound' = FALSE
    /\ measAmount' = 0
    /\ appendIndex' = 0
    /\ fed' = 0
    /\ pc' = "ack_done"
    /\ UNCHANGED <<rx_buffer, rx_data_ready, measurement, rxPending, sent, polls,
                   measurementCount, lastMeasurement, hasMeasurement, logged,
                   copies, dev>>
    /\ UNCHANGED <<usb, rxSeen, enqs, sdVars>>
    /\ UNCHANGED sideVars

\* the closing stopMeasurement() up to its wait
FinalStop ==
    /\ pc = "ack_done"
    /\ SendCommand(SetBytes(ZeroTx, StopFrame), CMD_STOP, sent, "stop2_wait")
    /\ UNCHANGED <<rx_buffer, messageFound, measAmount, measurement, appendIndex,
                   polls, measurementCount, lastMeasurement, hasMeasurement,
                   logged, copies, fed>>
    /\ UNCHANGED <<usb, rxSeen, sdVars>>
    /\ UNCHANGED sideVars

\* the closing stopMeasurement(): end of the wait, buffers cleared
FinalStopWaitEnd ==
    /\ pc = "stop2_wait"
    /\ EndWait
    /\ pc' = "copy"
    /\ UNCHANGED <<rx_data_ready, messageFound, measAmount, measurement, appendIndex,
                   rxPending, sent, polls, measurementCount, lastMeasurement,
                   hasMeasurement, logged, copies, fed, dev>>
    /\ UNCHANGED <<usb, rxSeen, enqs, sdVars>>
    /\ UNCHANGED sideVars

\* the frame buffer is copied for the radio, the log file of the
\* measurement is closed, and the cycle is over
CopyLast ==
    /\ pc = "copy"
    /\ lastMeasurement' = measurement
    /\ hasMeasurement' = TRUE
    /\ fileLog' = IF logFileOpen THEN LogString(logFile, fileLog, "complete") ELSE fileLog
    /\ logFile' = IF logFileOpen THEN FALSE ELSE logFile
    /\ pc' = "idle"
    /\ UNCHANGED <<rx_buffer, rx_data_ready, tx_buffer, messageFound, measAmount,
                   measurement, appendIndex, rxPending, sent, polls, measurementCount,
                   logged, copies, fed, dev>>
    /\ UNCHANGED <<usb, rxSeen, enqs, useSD, logFileOpen, warned>>
    /\ UNCHANGED sideVars

Foreground ==
    \/ BeginCycle
    \/ StopWaitEnd
    \/ SendStep
    \/ StepWaitEnd
    \/ StartWaitEnd
    \/ AcqPoll
    \/ AcqEnd
    \/ Acknowledge
    \/ AckReset
    \/ FinalStop
    \/ FinalStopWaitEnd
    \/ CopyLast

Next ==
    \/ RxComplete
    \/ BeginCycle
    \/ StopWaitEnd
    \/ SendStep
    \/ StepWaitEnd
    \/ StartWaitEnd
    \/ AcqPoll
    \/ AcqEnd
    \/ Acknowledge
    \/ AckReset
    \/ FinalStop
    \/ FinalStopWaitEnd
    \/ CopyLast

Spec == Init /\ [][Next]_vars

\* the foreground always goes on: every wait and the acquisition window
\* have a deadline and millis() advances
LiveSpec == Init /\ [][Next]_vars /\ WF_vars(Foreground)

\* ------------------------------------------------------------------------
\* The console loop: loop() and processCommand() of main.cpp
\* ------------------------------------------------------------------------
\* The clock counts half scheduler ticks; the intervals are scaled to a few
\* ticks.  performMeasurement() is a synchronous call: its steps are the
\* foreground actions above, here it is the time it takes and the moment it
\* returns.  A cycle takes less than the 30 s interval.
CycleLens == (TickLen + 1)..(IntervalLen - 1)

\* the console lines explored
Commands == {"measure", "auto 30", "stop"}

\* cmd.startsWith("auto")
StartsWithAuto(line) == line \in {"auto", "auto 30"}

\* spaceIdx > 0 and intervalStr.toInt() > 0
HasSeconds(line) == line = "auto 30"

\* a call that returns at once and leaves the callee running
CallBlocks_Detached(callee, after) == after

\* performMeasurement(...) called from loop(): the caller is inside the
\* callee until it returns
CallBlocks(callee, after) == callee

\* an auto-mode test that fires only after the interval has been exceeded
\* by a whole tick
AutoDue_Late(cur, last, interval) == cur - last >= interval + TickLen

\* if (currentTime - lastMeasurementTime >= autoInterval)
AutoDue(cur, last, interval) == cur - last >= interval

\* the cycle of the model above, parked: the console loop does not look
\* into it
Parked ==
    /\ CycleInit
    /\ ~dev.marked
    /\ usb = Claim(UsbInit, RefDevice).usb
    /\ ~useSD

\* a line arrives in the serial buffer (at any time, also during a
\* measurement)
ConsoleInput ==
    /\ inbox = ""
    /\ \E c \in Commands : inbox' = c
    /\ UNCHANGED <<now, lp, autoMode, autoInterval, lastMeasurementTime,
                   currentTime, inFlight, starts, autoSince, autoClean>>
    /\ UNCHANGED conRest

\* loop(): Serial.available() > 0, the line is read and processCommand()
\* runs
LoopCommand ==
    /\ lp = "top"
    /\ inbox # ""
    /\ inbox' = ""
    /\ CASE inbox = "measure" ->
              /\ lp' = CallBlocks("cmd_meas", "auto_check")
              /\ inFlight' = inFlight + 1
              /\ autoClean' = FALSE
              /\ UNCHANGED <<autoMode, autoInterval, lastMeasurementTime,
                             starts, autoSince>>
         [] StartsWithAuto(inbox) ->
              /\ autoInterval' = IF HasSeconds(inbox) THEN IntervalLen
                                                       ELSE autoInterval
              /\ autoMode' = TRUE
              /\ lastMeasurementTime' = now
              /\ autoSince' = now
              /\ starts' = <<>>
              /\ autoClean' = TRUE
              /\ lp' = "auto_check"
              /\ UNCHANGED inFlight
         [] inbox = "stop" ->
              /\ autoMode' = FALSE
              /\ lp' = "auto_check"
              /\ UNCHANGED <<autoInterval, lastMeasurementTime, inFlight,
                             starts, autoSince, autoClean>>
    /\ UNCHANGED <<now, currentTime>>
    /\ UNCHANGED conRest

\* loop(): no line is waiting
LoopNoCommand ==
    /\ lp = "top"
    /\ inbox = ""
    /\ lp' = "auto_check"
    /\ UNCHANGED <<now, inbox, autoMode, autoInterval, lastMeasurementTime,
                   currentTime, inFlight, starts, autoSince, autoClean>>
    /\ UNCHANGED conRest

\* performMeasurement() called by processCommand() returns
CommandMeasureReturns ==
    /\ lp = "cmd_meas"
    /\ \E d \in CycleLens : now' = now + d
    /\ inFlight' = inFlight - 1
    /\ lp' = "auto_check"
    /\ UNCHANGED <<inbox, autoMode, autoInterval, lastMeasurementTime,
                   currentTime, starts, autoSince, autoClean>>
    /\ UNCHANGED conRest

\* loop(): auto mode is on and the interval has passed: performMeasurement()
\* is called
AutoStart ==
    /\ lp = "auto_check"
    /\ autoMode
    /\ AutoDue(now, lastMeasurementTime, autoInterval)
    /\ currentTime' = now
    /\ starts' = Append(starts, now)
    /\ inFlight' = inFlight + 1
    /\ lp' = CallBlocks("auto_meas", "sleep")
    /\ UNCHANGED <<now, inbox, autoMode, autoInterval, lastMeasurementTime,
                   autoSince, autoClean>>
    /\ UNCHANGED conRest

\* loop(): auto mode is off or the interval has not passed
AutoSkip ==
    /\ lp = "auto_check"
    /\ ~(autoMode /\ AutoDue(now, lastMeasurementTime, autoInterval))
    /\ lp' = "sleep"
    /\ UNCHANGED <<now, inbox, autoMode, autoInterval, lastMeasurementTime,
                   currentTime, inFlight, starts, autoSince, autoClean>>
    /\ UNCHANGED conRest

\* performMeasurement() called by the auto mode returns;
\* lastMeasurementTime = currentTime
AutoMeasureReturns ==
    /\ lp = "auto_meas"
    /\ \E d \in CycleLens : now' = now + d
    /\ inFlight' = inFlight - 1
    /\ lastMeasurementTime' = currentTime
    /\ lp' = "sleep"
    /\ UNCHANGED <<inbox, autoMode, autoInterval, currentTime, starts,
                   autoSince, autoClean>>
    /\ UNCHANGED conRest

\* loop(): delay(10)
LoopDelay ==
    /\ lp = "sleep"
    /\ now < MaxClock
    /\ now' = now + TickLen
    /\ lp' = "top"
    /\ UNCHANGED <<inbox, autoMode, autoInterval, lastMeasurementTime,
                   currentTime, inFlight, starts, autoSince, autoClean>>
    /\ UNCHANGED conRest

ConsoleNext ==
    \/ ConsoleInput
    \/ LoopCommand
    \/ LoopNoCommand
    \/ CommandMeasureReturns
    \/ AutoStart
    \/ AutoSkip
    \/ AutoMeasureReturns
    \/ LoopDelay

\* setup() has run and no line has been typed
ConsoleStart == Parked /\ ConsoleInit /\ ClaimInit /\ PollInit /\ DumpIdle /\ MoreIdle

ConsoleSpec == ConsoleStart /\ [][ConsoleNext]_vars

\* the line "auto", without an interval, arrives in the serial buffer
ConsoleInputBare ==
    /\ inbox = ""
    /\ inbox' = "auto"
    /\ UNCHANGED <<now, lp, autoMode, autoInterval, lastMeasurementTime,
                   currentTime, inFlight, starts, autoSince, autoClean>>
    /\ UNCHANGED conRest

AutoNext ==
    \/ ConsoleNext
    \/ ConsoleInputBare

\* the console loop with the line "auto" among its inputs
AutoSpec == ConsoleStart /\ [][AutoNext]_vars

\* ------------------------------------------------------------------------
\* Enumeration: the USB host offers devices to AvaSpec::claim
\* ------------------------------------------------------------------------
\* the devices and descriptors offered: any type, lengths around 23, the
\* AvaSpec ids and others, two endpoint layouts, two values of
\* wMaxPacketSize (descriptor bytes 13-14 and 20-21)
Offers ==
    [type : {0, 1},
     len : {DESC_LEN - 1, DESC_LEN, DESC_LEN + 1},
     vid : {AV_VID, AV_VID + 1},
     pid : {AV_PID, AV_PID + 1},
     desc11 : {2, 3},
     desc18 : {134, 129},
     mps : {BUF_SIZE, 64}]

\* AvaSpec::claim(dev, type, descriptors, len) is called by the host
ClaimCall ==
    /\ claimCalls < MaxClaims
    /\ \E d \in Offers :
          /\ claimIn' = d
          /\ claimRet' = Claim(usb, d).ret
          /\ usb' = Claim(usb, d).usb
    /\ claimCalls' = claimCalls + 1
    /\ UNCHANGED clmRest

\* the driver object after init(), with or without a device claimed before
ClaimStart ==
    /\ CycleInit
    /\ ConsoleInit
    /\ ClaimInit
    /\ PollInit
    /\ DumpIdle
    /\ MoreIdle

ClaimSpec == ClaimStart /\ [][ClaimCall]_vars

\* ------------------------------------------------------------------------
\* The polling driver and its loop(): the foreground reads the frame chunk
\* by chunk, the completion callback only copies the transfer
\* ------------------------------------------------------------------------
\* process_rx_data of the polling driver: interrupt context
PollRxComplete ==
    /\ rxPending > 0
    /\ \E o \in DeviceOffers(dev) :
          /\ rx_buffer' = Memcpy(rx_buffer, 0, o.chunk.bytes, o.chunk.len)
          /\ dev' = o.after
    /\ rx_data_ready' = TRUE
    /\ rxPending' = rxPending - 1
    /\ UNCHANGED <<pc, tx_buffer, messageFound, measAmount, measurement, appendIndex,
                   sent, polls, enqs, logFile, fileLog, pollVars>>
    /\ UNCHANGED pollRest

\* the deadlines of the polling driver are seconds and the device answers
\* within milliseconds: a deadline passes only when no transfer is in
\* flight or the device has nothing to deliver
Silent == rxPending = 0 \/ DeviceOffers(dev) = {}

\* waitForData(timeout_ms) is over
PollWaitOver == WaitEnds(rx_data_ready, Silent)

\* the tail of a command function: wait over, both buffers cleared
PollEndWait ==
    /\ PollWaitOver
    /\ tx_buffer' = ZeroTx
    /\ rx_buffer' = Zeros(BUF_SIZE)

\* what a command function of the polling driver leaves alone up to its wait
pollSendKeeps == <<rx_buffer, messageFound, measAmount, measurement, appendIndex,
                   polls, logFile, fileLog, pollVars>>

\* what the end of a wait leaves alone
pollWaitKeeps == <<rx_data_ready, messageFound, measAmount, measurement,
                   appendIndex, rxPending, sent, polls, dev, enqs, logFile,
                   fileLog, pollVars>>

\* loop(): myusb.Task(), delay(1000), getIdentification() up to its wait
PollIdentify ==
    /\ pc = "idle"
    /\ measurementCounter < 2 * MaxCycles
    /\ SendCommand(SetBytes(tx_buffer, IdentFrame), CMD_IDENT, <<>>, "b_ident_wait")
    /\ UNCHANGED pollSendKeeps
    /\ UNCHANGED pollRest

\* getIdentification(): waitForData(3000) is over, buffers cleared
PollIdentifyEnd ==
    /\ pc = "b_ident_wait"
    /\ PollEndWait
    /\ pc' = "b_prepare"
    /\ UNCHANGED pollWaitKeeps
    /\ UNCHANGED pollRest

\* prepareMeasurement() up to its wait
PollPrepare ==
    /\ pc = "b_prepare"
    /\ SendCommand(SetBytes(ZeroTx, PollPrepareFrame), CMD_PREPARE, sent, "b_prepare_wait")
    /\ UNCHANGED pollSendKeeps
    /\ UNCHANGED pollRest

\* prepareMeasurement(): waitForData(3000) is over, buffers cleared
PollPrepareEnd ==
    /\ pc = "b_prepare_wait"
    /\ PollEndWait
    /\ pc' = "b_start"
    /\ UNCHANGED pollWaitKeeps
    /\ UNCHANGED pollRest

\* startMeasurement() up to its first wait
PollStart ==
    /\ pc = "b_start"
    /\ SendCommand(SetBytes(ZeroTx, StartFrame), CMD_START, sent, "b_start_wait")
    /\ UNCHANGED pollSendKeeps
    /\ UNCHANGED pollRest

\* startMeasurement(): the while loop is over, waitForData(2000) is entered
PollStartWaited ==
    /\ pc = "b_start_wait"
    /\ PollWaitOver
    /\ pc' = "b_start_wait2"
    /\ UNCHANGED <<tx_buffer, rx_buffer>>
    /\ UNCHANGED pollWaitKeeps
    /\ UNCHANGED pollRest

\* startMeasurement(): waitForData(2000) is over, flag and buffers cleared;
\* readFullMeasurement() is entered: frame buffer cleared, bytesReceived = 0
PollStartEnd ==
    /\ pc = "b_start_wait2"
    /\ PollEndWait
    /\ rx_data_ready' = FALSE
    /\ measurement' = Zeros(MEAS_SIZE)
    /\ bytesReceived' = 0
    /\ pc' = "b_read"
    /\ UNCHANGED <<messageFound, measAmount, appendIndex, rxPending, sent, polls,
                   dev, enqs, logFile, fileLog, measurementCounter>>
    /\ UNCHANGED pollRest

\* readFullMeasurement(): one iteration up to its wait: rx_buffer cleared,
\* an inbound transfer queued with interrupts masked
PollReadQueue ==
    /\ pc = "b_read"
    /\ rx_buffer' = Zeros(BUF_SIZE)
    /\ rx_data_ready' = FALSE
    /\ enqs' = <<Enq("rx", TRUE, rxPending)>>
    /\ rxPending' = IF usb.rxpipe.open THEN QueueRx(rxPending) ELSE rxPending
    /\ \E fault \in BOOLEAN : pc' = AfterQueue(usb.rxpipe, fault, "b_read_wait")
    /\ UNCHANGED <<tx_buffer, messageFound, measAmount, measurement, appendIndex,
                   sent, polls, dev, logFile, fileLog, pollVars>>
    /\ UNCHANGED pollRest

\* a read loop that takes half a packet per request
ChunkTake_Half(got) == BUF_SIZE \div 2

\* uint16_t n = min<uint16_t>(512, totalBytes - bytesReceived)
ChunkTake(got) == IF MEAS_SIZE - got < BUF_SIZE THEN MEAS_SIZE - got ELSE BUF_SIZE

\* readFullMeasurement(): the wait of the iteration is over (data or 3 s);
\* min(512, totalBytes - bytesReceived) bytes of rx_buffer are taken
PollReadChunk ==
    /\ pc = "b_read_wait"
    /\ PollWaitOver
    /\ LET n == ChunkTake(bytesReceived)
       IN  /\ measurement' = Memcpy(measurement, bytesReceived, rx_buffer, n)
           /\ bytesReceived' = bytesReceived + n
           /\ pc' = IF bytesReceived + n < MEAS_SIZE THEN "b_read" ELSE "b_ack"
    /\ UNCHANGED <<rx_buffer, rx_data_ready, tx_buffer, messageFound, measAmount,
                   appendIndex, rxPending, sent, polls, dev, enqs, logFile, fileLog,
                   measurementCounter>>
    /\ UNCHANGED pollRest

\* measurementAcknowledgement() of the polling driver: CSV file, raw log,
\* the 0xC0 frame queued with interrupts masked, delay(10), state reset
PollAcknowledgement(next) ==
    /\ measurementCounter' = measurementCounter + 1
    /\ fileLog' = LogMeasurement(logFile, fileLog)
    /\ tx_buffer' = ZeroTx
    /\ sent' = Append(sent, CMD_ACK)
    /\ enqs' = <<Enq("tx", TRUE, rxPending)>>
    /\ dev' = IF usb.txpipe.open THEN DeviceOnCommand(dev, CMD_ACK, FALSE) ELSE dev
    /\ messageFound' = FALSE
    /\ measAmount' = 0
    /\ appendIndex' = 0
    /\ \E fault \in BOOLEAN : pc' = AfterQueue(usb.txpipe, fault, next)

\* startMeasurement(): its closing call of measurementAcknowledgement();
\* back in loop(), startTime is taken
PollStartAcknowledges ==
    /\ pc = "b_ack"
    /\ PollAcknowledgement("b_window")
    /\ polls' = 0
    /\ UNCHANGED <<rx_buffer, rx_data_ready, measurement, rxPending, logFile,
                   bytesReceived>>
    /\ UNCHANGED pollRest

\* loop(): one iteration of the 10 s window: handleUnsolicitatedData(),
\* delay(100)
PollWindow ==
    /\ pc = "b_window"
    /\ polls < WindowPolls
    /\ polls' = polls + 1
    /\ enqs' = <<Enq("rx", FALSE, rxPending)>>
    /\ rxPending' = IF usb.rxpipe.open THEN QueueRx(rxPending) ELSE rxPending
    /\ rx_buffer' = Zeros(BUF_SIZE)
    /\ rx_data_ready' = FALSE
    /\ \E fault \in BOOLEAN : pc' = AfterQueue(usb.rxpipe, fault, "b_window")
    /\ UNCHANGED <<tx_buffer, messageFound, measAmount, measurement, appendIndex,
                   sent, dev, logFile, fileLog, pollVars>>
    /\ UNCHANGED pollRest

\* loop(): the window has elapsed; measurementAcknowledgement() is called
PollLoopAcknowledges ==
    /\ pc = "b_window"
    /\ polls >= 1
    /\ PollAcknowledgement("b_stop")
    /\ UNCHANGED <<rx_buffer, rx_data_ready, measurement, rxPending, polls, logFile,
                   bytesReceived>>
    /\ UNCHANGED pollRest

\* stopMeasurement() of the polling driver up to its wait
PollStop ==
    /\ pc = "b_stop"
    /\ SendCommand(SetBytes(ZeroTx, StopFrame), CMD_STOP, sent, "b_stop_wait")
    /\ UNCHANGED pollSendKeeps
    /\ UNCHANGED pollRest

\* stopMeasurement(): waitForData(2000) is over, buffers cleared; loop():
\* the session is closed in the log, delay(100000)
PollStopEnd ==
    /\ pc = "b_stop_wait"
    /\ PollEndWait
    /\ fileLog' = LogString(logFile, fileLog, "complete")
    /\ logFile' = FALSE
    /\ pc' = "idle"
    /\ UNCHANGED <<rx_data_ready, messageFound, measAmount, measurement,
                   appendIndex, rxPending, sent, polls, dev, enqs, pollVars>>
    /\ UNCHANGED pollRest

PollNext ==
    \/ PollRxComplete
    \/ PollIdentify
    \/ PollIdentifyEnd
    \/ PollPrepare
    \/ PollPrepareEnd
    \/ PollStart
    \/ PollStartWaited
    \/ PollStartEnd
    \/ PollReadQueue
    \/ PollReadChunk
    \/ PollStartAcknowledges
    \/ PollWindow
    \/ PollLoopAcknowledges
    \/ PollStop
    \/ PollStopEnd

\* setup() of the polling firmware: the log file is opened once, when the
\* card is there; the spectrometer is claimed or not
PollSetup ==
    /\ CycleInit
    /\ ~dev.marked
    /\ usb = Claim(UsbInit, RefDevice).usb
    /\ ~useSD
    /\ ConsoleInit
    /\ ClaimInit
    /\ PollInit
    /\ DumpIdle
    /\ MoreIdle

PollSpec == PollSetup /\ [][PollNext]_vars

\* millis() advances and the host serves its interrupts: the polling loop
\* always goes on
PollLiveSpec == PollSetup /\ [][PollNext]_vars /\ WF_vars(PollNext)

\* ------------------------------------------------------------------------
\* The hex dump: AvaSpec::printBuffer and logMeasurement (the same loop on
\* Serial and on the log file)
\* ------------------------------------------------------------------------
LINE_BYTES == 32

\* the digits of print(val, HEX)
UpperDigits == <<"0", "1", "2", "3", "4", "5", "6", "7",
                 "8", "9", "A", "B", "C", "D", "E", "F">>

\* the buffers dumped: pattern 0 is all zero, pattern 1 runs through every
\* byte value, pattern 2 is all 0xFF
ByteAt(pat, i) ==
    CASE pat = 0 -> 0
      [] pat = 1 -> (i * 7 + 9) % 256
      [] OTHER -> 255

\* the buffer sizes dumped: empty, around one and two lines, the command
\* frames, the measurement frame
DumpSizes == {0, 1, 6, 31, 32, 33, 47, 64, 65, MEAS_SIZE}

\* print(val, HEX): the hexadecimal digits of val without leading zeros
PrintHex(b) ==
    IF b < 16 THEN <<UpperDigits[b + 1]>>
    ELSE <<UpperDigits[(b \div 16) + 1], UpperDigits[(b % 16) + 1]>>

\* a dump that starts a line every 16 bytes
LineBreakAt_16(i) == i % 16 = 0

\* if (i % 32 == 0) println();
LineBreakAt(i) == i % LINE_BYTES = 0

\* if (buf[i] < 0x10) print("0"); print(buf[i], HEX); print(" ");
Token(b) == (IF b < 16 THEN <<"0">> ELSE <<>>) \o PrintHex(b) \o <<" ">>

\* the function is called with a buffer and its size; the line open on the
\* sink holds nothing of the dump
DumpStart ==
    /\ hexN \in DumpSizes
    /\ hexPat \in {0, 1, 2}
    /\ hexI = 0
    /\ hexLine = <<>>
    /\ hexLens = <<>>
    /\ hexDone = FALSE
    /\ Parked
    /\ ConsoleInit
    /\ ClaimInit
    /\ PollInit
    /\ MoreIdle

\* one iteration of the for loop
DumpByte ==
    /\ ~hexDone
    /\ hexI < hexN
    /\ IF LineBreakAt(hexI)
         THEN /\ hexLens' = Append(hexLens, Len(hexLine))
              /\ hexLine' = Token(ByteAt(hexPat, hexI))
         ELSE /\ hexLens' = hexLens
              /\ hexLine' = hexLine \o Token(ByteAt(hexPat, hexI))
    /\ hexI' = hexI + 1
    /\ UNCHANGED <<hexN, hexPat, hexDone>>
    /\ UNCHANGED <<cycleVars, conVars, clmVars, pollVars, moreVars>>

\* the loop is over: the closing println()
DumpEnd ==
    /\ ~hexDone
    /\ hexI >= hexN
    /\ hexLens' = Append(hexLens, Len(hexLine))
    /\ hexLine' = <<>>
    /\ hexDone' = TRUE
    /\ UNCHANGED <<hexN, hexPat, hexI>>
    /\ UNCHANGED <<cycleVars, conVars, clmVars, pollVars, moreVars>>

DumpNext ==
    \/ DumpByte
    \/ DumpEnd

DumpSpec == DumpStart /\ [][DumpNext]_vars

\* ------------------------------------------------------------------------
\* The CSV file of a frame: step 1 of measurementAcknowledgement() of the
\* polling driver
\* ------------------------------------------------------------------------
HEADER_BYTES == 10

\* print(val) of an integer: its decimal digits, no leading zero
RECURSIVE PrintDec(_)
PrintDec(n) ==
    IF n < 10 THEN <<UpperDigits[n + 1]>>
    ELSE PrintDec(n \div 10) \o <<UpperDigits[(n % 10) + 1]>>

\* csvFile.println("Pixel,Intensity")
CsvHeader == <<"P", "i", "x", "e", "l", ",", "I", "n", "t", "e", "n", "s", "i", "t", "y">>

\* uint16_t intensity = measurement[i] | (measurement[i + 1] << 8)
Intensity(pat, i) == (ByteAt(pat, i) + 256 * ByteAt(pat, i + 1)) % 65536

\* a loop that takes one more pair after the frame
CsvLoopRuns_PastEnd(i) == i <= MEAS_SIZE

\* for (int i = 10; i < MEAS_SIZE; i += 2)
CsvLoopRuns(i) == i < MEAS_SIZE

\* everything apart from the CSV step is at rest
BaseIdle ==
    /\ Parked
    /\ ConsoleInit
    /\ ClaimInit
    /\ PollInit
    /\ DumpIdle

\* measurementAcknowledgement() is entered with a frame in the buffer; the
\* file opens or not
CsvStart ==
    /\ csvPat \in {0, 1, 2}
    /\ csvOpen \in BOOLEAN
    /\ csvI = 0
    /\ csvRow = <<>>
    /\ csvLines = 0
    /\ csvHigh = -1
    /\ csvDone = FALSE
    /\ BaseIdle
    /\ TxIdle
    /\ FileIdle
    /\ NativeIdle
    /\ RadioIdle
    /\ IntervalIdle

\* the file is open: the header row is written, i = 10
CsvWriteHeader ==
    /\ ~csvDone
    /\ csvOpen
    /\ csvLines = 0
    /\ csvRow' = CsvHeader
    /\ csvLines' = 1
    /\ csvI' = HEADER_BYTES
    /\ UNCHANGED <<csvPat, csvOpen, csvHigh, csvDone>>
    /\ UNCHANGED csvRest

\* one iteration of the loop: one row
CsvWriteRow ==
    /\ ~csvDone
    /\ csvOpen
    /\ csvLines >= 1
    /\ CsvLoopRuns(csvI)
    /\ LET pixelIndex == (csvI - HEADER_BYTES) \div 2
       IN  csvRow' = PrintDec(pixelIndex) \o <<",">> \o PrintDec(Intensity(csvPat, csvI))
    /\ csvHigh' = csvI + 1
    /\ csvLines' = csvLines + 1
    /\ csvI' = csvI + 2
    /\ UNCHANGED <<csvPat, csvOpen, csvDone>>
    /\ UNCHANGED csvRest

\* the loop is over: flush and close
CsvClose ==
    /\ ~csvDone
    /\ csvOpen
    /\ csvLines >= 1
    /\ ~CsvLoopRuns(csvI)
    /\ csvDone' = TRUE
    /\ UNCHANGED <<csvPat, csvOpen, csvI, csvRow, csvLines, csvHigh>>
    /\ UNCHANGED csvRest

\* the file did not open: a message on the console, no CSV
CsvSkipped ==
    /\ ~csvDone
    /\ ~csvOpen
    /\ csvDone' = TRUE
    /\ UNCHANGED <<csvPat, csvOpen, csvI, csvRow, csvLines, csvHigh>>
    /\ UNCHANGED csvRest

CsvNext ==
    \/ CsvWriteHeader
    \/ CsvWriteRow
    \/ CsvClose
    \/ CsvSkipped

CsvSpec == CsvStart /\ [][CsvNext]_vars

\* ------------------------------------------------------------------------
\* The command encoders: what each command function writes into tx_buffer
\* before it queues the transfer
\* ------------------------------------------------------------------------
CommandIds == {CMD_IDENT, CMD_PREPARE, CMD_START, CMD_STOP, CMD_ACK}

\* tx_buffer after the encoding part of the command function: Prepare and
\* Stop clear the buffer first, the others write over what is there
EncodeCommand(cmd, buf) ==
    CASE cmd = CMD_IDENT -> SetBytes(buf, IdentFrame)
      [] cmd = CMD_PREPARE -> SetBytes(ZeroTx, PrepareFrame)
      [] cmd = CMD_START -> SetBytes(buf, StartFrame)
      [] cmd = CMD_STOP -> SetBytes(ZeroTx, StopFrame)
      [] OTHER -> SetBytes(buf, AckFrame)

\* the length of the frame as the command function states it:
\* printBuffer(tx_buffer, n)
FrameLen(cmd) ==
    CASE cmd = CMD_PREPARE -> 47
      [] cmd = CMD_START -> 8
      [] OTHER -> 6

\* a command function is called: the encoding part of it
EncodeCall ==
    /\ Len(sent) < MaxEncodes
    /\ \E cmd \in CommandIds :
          /\ tx_buffer' = EncodeCommand(cmd, tx_buffer)
          /\ sent' = Append(sent, cmd)
    /\ UNCHANGED <<pc, rx_buffer, rx_data_ready, messageFound, measAmount,
                   measurement, appendIndex, rxPending, polls, measurementCount,
                   lastMeasurement, hasMeasurement, logged, copies, fed, dev>>
    /\ UNCHANGED <<rxSeen, usb, enqs, sdVars, sideVars>>

\* the driver after init(): no command encoded yet
EncodeStart ==
    /\ BaseIdle
    /\ MoreIdle

EncodeSpec == EncodeStart /\ [][EncodeCall]_vars

\* ------------------------------------------------------------------------
\* The outbound side of the command functions: the frame is built in
\* tx_buffer, the transfer is queued, the function waits for the response
\* (or 10 ms after an acknowledgement) and clears tx_buffer.  The transfer
\* completes when the device has taken the data; tx_callback does nothing.
\* ------------------------------------------------------------------------
\* a command function up to its wait
TxSend ==
    /\ pc = "idle"
    /\ Len(sent) < MaxEncodes
    /\ \E cmd \in CommandIds :
          /\ tx_buffer' = EncodeCommand(cmd, tx_buffer)
          /\ sent' = Append(sent, cmd)
          /\ pc' = IF cmd = CMD_ACK THEN "ack_delay" ELSE "tx_wait"
    /\ txPending' = txPending + 1
    /\ txLen' = usb.tx_size
    /\ UNCHANGED txRest

\* the wait for the response is over, or delay(10) after the
\* acknowledgement: memset(tx_buffer, 0, BUF_SIZE).  A response arrives only
\* after the device has taken the command; the deadline passes regardless.
TxClear ==
    /\ pc \in {"tx_wait", "ack_delay"}
    /\ pc = "tx_wait" =>
          \E ready \in (IF txPending = 0 THEN BOOLEAN ELSE {FALSE}),
             expired \in BOOLEAN : WaitEnds(ready, expired)
    /\ tx_buffer' = ZeroTx
    /\ pc' = "idle"
    /\ UNCHANGED <<sent, txPending, txLen>>
    /\ UNCHANGED txRest

\* interrupt context: an outbound transfer has completed; tx_callback and
\* process_tx_data change nothing
TxComplete ==
    /\ txPending > 0
    /\ txPending' = txPending - 1
    /\ UNCHANGED <<pc, tx_buffer, sent, txLen>>
    /\ UNCHANGED txRest

TxNext ==
    \/ TxSend
    \/ TxClear
    \/ TxComplete

TxStart ==
    /\ BaseIdle
    /\ MoreIdle

TxSpec == TxStart /\ [][TxNext]_vars

\* ------------------------------------------------------------------------
\* The UART bridge: checkForCommands, processCommand and transferFile of
\* OBCBridge.cpp.  A line sent on Serial1 is a sequence of characters or of
\* whole words.
\* ------------------------------------------------------------------------
\* the command lines explored, as they are after cmdString.trim()
FileLines == {"GET_FILE a.csv", "GET_FILE", "LIST"}

\* cmdStr.startsWith("GET_FILE ")
StartsWithGetFile(line) == line = "GET_FILE a.csv"

\* String(cmd).substring(9), trimmed
FileNameOf(line) == "a.csv"

\* Serial1.println("ERROR: ...")
ErrSD == <<"ERROR: SD card not available">>
ErrNotFound == <<"ERROR: File not found">>
ErrFailed == <<"ERROR: File transfer failed">>
ErrUnknown == <<"ERROR: Unknown command">>

\* if (buffer[i] < 0x10) Serial1.print("0"); Serial1.print(buffer[i], HEX);
HexPair(b) == (IF b < 16 THEN <<"0">> ELSE <<>>) \o PrintHex(b)

\* the hex characters of the file bytes from..(from + n - 1)
RECURSIVE HexRun(_, _, _)
HexRun(pat, from, n) ==
    IF n = 0 THEN <<>>
    ELSE HexPair(ByteAt(pat, from)) \o HexRun(pat, from + 1, n - 1)

\* checkForCommands(): a line has arrived; processCommand() runs up to the
\* read loop of transferFile() or to its return.  The card answers
\* SD.begin() or not, the file opens or not.
FileCommand ==
    /\ fpc = "idle"
    /\ requests < MaxRequests
    /\ requests' = requests + 1
    /\ \E line \in FileLines, sdOk, found \in BOOLEAN, size \in 0..MaxFile,
          pat \in {0, 1, 2} :
          IF ~StartsWithGetFile(line)
            THEN /\ uart' = <<ErrUnknown>>
                 /\ fpc' = "idle"
                 /\ fName' = ""
                 /\ fSize' = 0
                 /\ fPat' = 0
                 /\ fLeft' = 0
          ELSE IF ~sdOk
            THEN /\ uart' = <<ErrSD, ErrFailed>>
                 /\ fpc' = "idle"
                 /\ fName' = FileNameOf(line)
                 /\ fSize' = 0
                 /\ fPat' = 0
                 /\ fLeft' = 0
          ELSE IF ~found
            THEN /\ uart' = <<ErrNotFound, ErrFailed>>
                 /\ fpc' = "idle"
                 /\ fName' = FileNameOf(line)
                 /\ fSize' = 0
                 /\ fPat' = 0
                 /\ fLeft' = 0
          ELSE   /\ uart' = <<<<"FILE_START">>, <<FileNameOf(line)>>, PrintDec(size)>>
                 /\ fpc' = "send"
                 /\ fName' = FileNameOf(line)
                 /\ fSize' = size
                 /\ fPat' = pat
                 /\ fLeft' = size
    /\ fHex' = <<>>
    /\ UNCHANGED fileRest

\* transferFile(): one iteration of while (dataFile.available()): a chunk
\* is read and printed as hex
FileChunk ==
    /\ fpc = "send"
    /\ fLeft > 0
    /\ LET n == IF fLeft < FILE_CHUNK THEN fLeft ELSE FILE_CHUNK
       IN  /\ fHex' = fHex \o HexRun(fPat, fSize - fLeft, n)
           /\ fLeft' = fLeft - n
    /\ UNCHANGED <<fpc, fName, fSize, fPat, uart, requests>>
    /\ UNCHANGED fileRest

\* transferFile(): the file is read: println(), println("FILE_END"), flush,
\* close, return true
FileEnd ==
    /\ fpc = "send"
    /\ fLeft = 0
    /\ uart' = uart \o <<fHex, <<"FILE_END">>>>
    /\ fpc' = "idle"
    /\ UNCHANGED <<fName, fSize, fPat, fLeft, fHex, requests>>
    /\ UNCHANGED fileRest

FileNext ==
    \/ FileCommand
    \/ FileChunk
    \/ FileEnd

FileStart ==
    /\ BaseIdle
    /\ MoreIdle

FileSpec == FileStart /\ [][FileNext]_vars

\* ------------------------------------------------------------------------
\* The measurement output of the native simulation (performMeasurement of
\* main_native.cpp) next to the firmware's dump of the same frame
\* ------------------------------------------------------------------------
NUM_PIXELS == 2048

\* if (i % 16 == 0 && i > 0) Serial.println();
NativeBreakAt(i) == i % 16 = 0 /\ i > 0

\* the firmware prints no CSV block on Serial after its dump:
\* measurementAcknowledgement goes on to logMeasurement and the 0xC0 frame
FirmwareCsvRows == 0

\* the firmware is about to dump a measurement frame and the simulation is
\* about to print the same frame
NativeStart ==
    /\ hexN = MEAS_SIZE
    /\ hexPat \in {0, 1, 2}
    /\ hexI = 0
    /\ hexLine = <<>>
    /\ hexLens = <<>>
    /\ hexDone = FALSE
    /\ Parked
    /\ ConsoleInit
    /\ ClaimInit
    /\ PollInit
    /\ CsvIdle
    /\ TxIdle
    /\ FileIdle
    /\ natI = 0
    /\ natLine = <<>>
    /\ natLens = <<>>
    /\ natRows = 0
    /\ natDone = FALSE
    /\ RadioIdle
    /\ IntervalIdle

\* one iteration of the dump loop of the simulation
NativeByte ==
    /\ hexDone
    /\ ~natDone
    /\ natI < MEAS_SIZE
    /\ IF NativeBreakAt(natI)
         THEN /\ natLens' = Append(natLens, Len(natLine))
              /\ natLine' = Token(ByteAt(hexPat, natI))
         ELSE /\ natLens' = natLens
              /\ natLine' = natLine \o Token(ByteAt(hexPat, natI))
    /\ natI' = natI + 1
    /\ UNCHANGED <<natRows, natDone>>
    /\ UNCHANGED natRest

\* the dump loop is over: println(), then the CSV block: the header and one
\* row per pixel
NativeEnd ==
    /\ hexDone
    /\ ~natDone
    /\ natI >= MEAS_SIZE
    /\ natLens' = Append(natLens, Len(natLine))
    /\ natLine' = <<>>
    /\ natRows' = NUM_PIXELS
    /\ natDone' = TRUE
    /\ UNCHANGED natI
    /\ UNCHANGED natRest

NativeNext ==
    \/ DumpByte
    \/ DumpEnd
    \/ NativeByte
    \/ NativeEnd

NativeSpec == NativeStart /\ [][NativeNext]_vars

\* ------------------------------------------------------------------------
\* Properties
\* ------------------------------------------------------------------------
IsPrefix(a, b) == Len(a) <= Len(b) /\ \A k \in 1..Len(a) : a[k] = b[k]

\* the protocol steps among the commands sent (the Stop commands that frame
\* the cycle are left out)
ProtocolSteps(log) == SelectSeq(log, LAMBDA c : c # CMD_STOP)

StepOrder == <<CMD_IDENT, CMD_PREPARE, CMD_START, CMD_ACK>>

\* the frame is complete: the write position has reached the frame size
Complete == WriteOffset = MEAS_SIZE

\* the chunks taken since the assembler was idle are exactly the first
\* chunks of the frame the device streams, in order
OnlyFrameFed == dev.started /\ fed = dev.idx

\* C1: when the nine chunks of the reference frame have been delivered in
\* order to the idle assembler, the frame buffer equals the reference frame.
C1_FrameReproduced ==
    (~dev.marked /\ OnlyFrameFed /\ fed = NumChunks)
        => measurement = RefFrame(dev.marked)

C4_CompleteOnlyAfterNine ==
    (~dev.marked /\ OnlyFrameFed /\ Complete) => fed >= NumChunks

\* C5: a result handed over while the frame was incomplete is marked
\* partial: it is not reported with the full frame length.
C5_PartialMarked ==
    (hasMeasurement /\ logged.amount < NumChunks) => logged.len < MEAS_SIZE

\* C6: every measurement cycle that is started on the claimed device
\* returns to Idle.
C6_ReturnsToIdle == (usb.rxpipe.open /\ pc # "idle") ~> (pc = "idle")

\* C6 witness: a cycle has ended although the device delivered nothing up
\* to the acknowledgement
C6_SilentCycleDone ==
    pc = "idle" /\ measurementCount > 0 /\ hasMeasurement /\ logged.amount = 0

\* C7: the protocol steps are sent in the order Identify, Prepare, Start,
\* (acquisition,) Acknowledge, and a command is queued only when the
\* foreground is not inside a wait or the acquisition window.
C7_StepOrder ==
    /\ [](IsPrefix(ProtocolSteps(sent), StepOrder))
    /\ []((Len(ProtocolSteps(sent)) = Len(StepOrder)) => polls >= AcqPolls)
    /\ [][sent' # sent
            => pc \in {"idle", "stop_done", "ident_done", "prep_done", "dump", "ack_done"}]_vars

\* C7 witness: all four steps of a cycle have been sent
C7_AllStepsSent == ProtocolSteps(sent) = StepOrder

\* C8 (as claimed): once the frame is complete the acquisition loop does
\* not start another iteration.
C8_EndsOnCompletion ==
    [][(pc = "acq" /\ Complete) => polls' = polls]_vars

\* C8 (amended): the acquisition step ends exactly when the acquisition
\* window has expired, whether or not the frame is complete.
C8_EndsAtWindowExpiry ==
    [][(pc = "acq" /\ usb.rxpipe.open) =>
          IF polls >= AcqPolls THEN polls' = polls ELSE pc' = "acq"]_vars

\* C8 witness: the frame is complete and the window is still open
C8_CompleteWindowOpen == pc = "acq" /\ Complete /\ polls < AcqPolls

\* C9: when Start is sent the assembler is idle at write position 0.
C9_ResetAtStart ==
    [][(Len(sent') > Len(sent) /\ sent'[Len(sent')] = CMD_START)
          => (measAmount = 0 /\ ~messageFound /\ fed = 0)]_vars

\* C10: after a complete cycle the assembler is at write position 0 with a
\* cleared frame buffer.
C10_CleanAfterCycle ==
    (pc = "idle" /\ measurementCount > 0)
        => (measAmount = 0 /\ ~messageFound /\ measurement = Zeros(MEAS_SIZE))

\* C11: while measurementAcknowledgement() prints and logs the frame, the
\* bytes it reads are not changed.
C11_FrameStableDuringDump ==
    [][pc = "dump" => measurement' = measurement]_vars

\* C12: a transfer queued while an earlier inbound transfer may still
\* complete is queued with interrupts masked.
C12_RacingEnqueuesMasked ==
    \A k \in 1..Len(enqs) : enqs[k].racing => enqs[k].masked

\* C15: while the pipes were never opened no command is sent and no
\* transfer is queued.
C15_NothingSentUnclaimed ==
    ~usb.txpipe.open => (sent = <<>> /\ enqs = <<>>)

\* the commands of one whole cycle
CycleCommands == <<CMD_STOP, CMD_IDENT, CMD_PREPARE, CMD_START, CMD_ACK, CMD_STOP>>

\* C17: when the log file of a measurement cannot be opened, the warning is
\* printed and nothing is written to the file; the cycle sends the same
\* commands whatever the storage did, and the frame buffer is written by
\* the completion callback only.
C17_FailedOpenSkipsSink ==
    /\ []((useSD /\ measurementCount > 0 /\ ~logFileOpen) => (warned /\ fileLog = <<>>))
    /\ []((pc = "idle" /\ measurementCount > 0) => sent = CycleCommands)
    /\ [][measurement' # measurement => rxPending' = rxPending - 1]_vars

\* C17 witness: a cycle on the claimed device has ended with a frame
\* acquired although the log file could not be opened
C17_FailedOpenCycleDone ==
    /\ pc = "idle" /\ measurementCount > 0
    /\ useSD /\ warned /\ ~logFileOpen
    /\ usb.rxpipe.open /\ logged.amount > 0

\* C19: a chunk without a marker that completes while the assembler is idle
\* leaves the frame buffer, the chunk counter and the idle state unchanged.
C19_IdleNoiseDiscarded ==
    [][(rxPending' = rxPending - 1 /\ ~messageFound
          /\ rx_buffer'[0] # MARK_21 /\ rx_buffer'[4] # MARK_B1)
         => (measurement' = measurement /\ measAmount' = measAmount
               /\ ~messageFound')]_vars

\* C19 witness: a chunk without a marker has completed while the assembler
\* was idle
C19_IdleNoiseSeen ==
    rxSeen.idle /\ ~rxSeen.marker /\ rx_data_ready /\ copies = <<>>

\* C13: at most one call of performMeasurement is in progress, under every
\* interleaving of console lines and auto-mode ticks.
C13_OneInFlight ==
    /\ [](inFlight <= 1)
    /\ [][inFlight' > inFlight => inFlight = 0]_vars

\* C13 witness: a measure line is waiting while an auto-mode measurement
\* is in progress
C13_RequestDuringCycle ==
    inFlight = 1 /\ lp = "auto_meas" /\ inbox = "measure"

C16_ClaimExact ==
    [][claimCalls' # claimCalls =>
          /\ claimRet' <=> (/\ claimIn'.len = 23
                            /\ claimIn'.vid = 6546
                            /\ claimIn'.pid = 1640)
          /\ ~claimRet' => (usb' = usb /\ drvVars' = drvVars)]_vars

\* C16 witness: a claimed driver was offered a device with the AvaSpec ids
\* and a descriptor of another length, and refused it
C16_WrongLengthRefused ==
    /\ claimCalls = 2
    /\ ~claimRet
    /\ claimIn.vid = AV_VID /\ claimIn.pid = AV_PID /\ claimIn.len # DESC_LEN
    /\ usb.rxpipe.open /\ usb.tx_ep = 3

\* occurrences of command c among the commands of the cycle
Times(c) == Cardinality({k \in 1..Len(sent) : sent[k] = c})

\* C18 (as claimed): within a measurement cycle Identify, Prepare, Start
\* and Acknowledge are each transmitted at most once, and exactly once in a
\* finished cycle.
C18_EachCommandOnce ==
    \A c \in {CMD_IDENT, CMD_PREPARE, CMD_START, CMD_ACK} :
        /\ Times(c) <= 1
        /\ (pc = "idle" /\ sent # <<>>) => Times(c) = 1

\* the value of an uppercase hexadecimal digit
HexVal(c) == (CHOOSE d \in 1..16 : UpperDigits[d] = c) - 1

\* the tokens on the open line: each is two uppercase hexadecimal digits,
\* giving the byte at its place in the buffer, and a space
OpenLineTokens ==
    /\ Len(hexLine) % 3 = 0
    /\ \A t \in 0..((Len(hexLine) \div 3) - 1) :
          LET hi == hexLine[3 * t + 1]
              lo == hexLine[3 * t + 2]
              at == 32 * (Len(hexLens) - 1) + t
          IN  /\ hi \in {UpperDigits[d] : d \in 1..16}
              /\ lo \in {UpperDigits[d] : d \in 1..16}
              /\ hexLine[3 * t + 3] = " "
              /\ 16 * HexVal(hi) + HexVal(lo) = ByteAt(hexPat, at)

\* the lines a finished dump of n bytes wrote, as token counts
LinesOf(n) ==
    [k \in 1..((n + 31) \div 32) |-> IF 32 * k <= n THEN 32 ELSE n - 32 * (k - 1)]

RECURSIVE DecVal(_)
DecVal(ds) ==
    IF ds = <<>> THEN 0
    ELSE 10 * DecVal(SubSeq(ds, 1, Len(ds) - 1)) + HexVal(ds[Len(ds)])

\* a decimal numeral: digits 0..9, no leading zero
IsNumeral(ds) ==
    /\ ds # <<>>
    /\ \A k \in 1..Len(ds) : ds[k] \in {UpperDigits[d] : d \in 1..10}
    /\ Len(ds) > 1 => ds[1] # "0"

\* the row written last is "p,v" for pixel p with the little-endian u16 of
\* the frame at offset 10 + 2p
RowIs(p) ==
    \E c \in 1..Len(csvRow) :
        /\ csvRow[c] = ","
        /\ IsNumeral(SubSeq(csvRow, 1, c - 1))
        /\ IsNumeral(SubSeq(csvRow, c + 1, Len(csvRow)))
        /\ DecVal(SubSeq(csvRow, 1, c - 1)) = p
        /\ DecVal(SubSeq(csvRow, c + 1, Len(csvRow)))
             = ByteAt(csvPat, 10 + 2 * p) + 256 * ByteAt(csvPat, 10 + 2 * p + 1)

LastCmd == sent[Len(sent)]
LengthField == tx_buffer[2] + 256 * tx_buffer[3]

\* the payload lengths of the command table
TablePayload(cmd) ==
    CASE cmd = CMD_PREPARE -> 41
      [] cmd = CMD_START -> 2
      [] OTHER -> 0

\* the parts of the layout that do not depend on the meaning of the length
\* field: preamble, command id, reserved byte, frame length
FrameShape ==
    /\ tx_buffer[0] = 32 /\ tx_buffer[1] = 0
    /\ tx_buffer[4] = LastCmd
    /\ tx_buffer[5] = 0
    /\ LastCmd \in {19, 5, 6, 15, 192}
    /\ FrameLen(LastCmd) = 6 + TablePayload(LastCmd)
    /\ LengthField < 256

\* C22 (as claimed): every encoded command is preamble, little-endian
\* payload length, command id, reserved byte, payload, with payload lengths
\* 0, 41, 2, 0, 0 and frame lengths 6, 47, 8, 6, 6.
C22_LengthIsPayload ==
    sent # <<>> => (FrameShape /\ LengthField = TablePayload(LastCmd))

\* C22 (amended): as claimed, except that the length field holds the
\* payload length plus 2: it counts the command id and the reserved byte, so
\* a frame is the length field plus 4 bytes long.
C22_LengthCountsIdAndReserved ==
    sent # <<>> =>
        /\ FrameShape
        /\ LengthField = TablePayload(LastCmd) + 2
        /\ FrameLen(LastCmd) = LengthField + 4

\* C22 witness: Prepare, Start and Acknowledge were encoded one after the
\* other
C22_ThreeEncoded ==
    sent = <<CMD_PREPARE, CMD_START, CMD_ACK>> /\ tx_buffer[7] = 4

\* C24 (as claimed): the foreground does not clear or overwrite tx_buffer
\* between the enqueue of an outbound transfer and its completion.
C24_FrameHeldUntilSent ==
    [][(txPending > 0 /\ txPending' >= txPending) => tx_buffer' = tx_buffer]_vars

\* the foreground of the polling driver is inside one of its wait loops
PollWaits == {"b_ident_wait", "b_prepare_wait", "b_start_wait", "b_start_wait2",
              "b_read_wait", "b_stop_wait"}

\* C25: every wait for a response is a bounded poll of rx_data_ready: the
\* foreground leaves a wait only with the flag set or the deadline passed,
\* and with the flag set it can always leave.
C25_WaitEndsOnFlagOrDeadline ==
    /\ [][(pc \in PollWaits /\ pc' # pc) => (rx_data_ready \/ Silent)]_vars
    /\ [](pc \in PollWaits /\ rx_data_ready => ENABLED (PollNext /\ pc' # pc))

\* C25 witness: the first wait of startMeasurement was left with the flag
\* set by the response to the Start command.
C25_WaitEndedByFlag ==
    /\ pc = "b_start_wait2"
    /\ sent = <<CMD_IDENT, CMD_PREPARE, CMD_START>>
    /\ rx_data_ready

\* C26 (as claimed): "auto" without an interval starts auto mode with the
\* default interval, whatever commands were processed before it.
C26_BareAutoUsesDefault ==
    [][(lp = "top" /\ inbox = "auto" /\ lp' # lp)
          => (autoMode' /\ autoInterval' = DefaultInterval)]_vars

\* the lines of a response that begin with ERROR:
ErrorLines == {ErrSD, ErrNotFound, ErrFailed, ErrUnknown}

\* FILE_START, the file name, the size, two hex characters per file byte,
\* FILE_END
CompleteFile(u) ==
    /\ Len(u) = 5
    /\ u[1] = <<"FILE_START">>
    /\ u[2] = <<fName>>
    /\ IsNumeral(u[3]) /\ DecVal(u[3]) = fSize
    /\ Len(u[4]) = 2 * fSize
    /\ \A i \in 0..(fSize - 1) :
          16 * HexVal(u[4][2 * i + 1]) + HexVal(u[4][2 * i + 2]) = ByteAt(fPat, i)
    /\ u[5] = <<"FILE_END">>

\* C27 (as claimed): the response to a request is the complete file
\* sequence or one ERROR: line.
C27_FileOrOneError ==
    (fpc = "idle" /\ uart # <<>>) =>
        \/ CompleteFile(uart)
        \/ (Len(uart) = 1 /\ uart[1] \in ErrorLines)

\* C28 (as claimed): for the same frame the simulation and the firmware
\* print a hex dump of the same line structure, followed by the same
\* 2048-row CSV block.
C28_SameOutputFormat ==
    (hexDone /\ natDone) =>
        /\ natLens = hexLens
        /\ natRows = NUM_PIXELS
        /\ FirmwareCsvRows = NUM_PIXELS

\* the endpoint number of a bEndpointAddress: bit 7 is the direction
EndpointNumber(addr) == addr % 128

\* C29 (as claimed): on a successful claim the two pipes are opened on the
\* endpoint addresses parsed from the descriptor and are sized to the
\* endpoints' maximum packet size.
C29_PipesFollowDescriptor ==
    [][(claimCalls' # claimCalls /\ claimRet') =>
          /\ usb'.rxpipe.ep = EndpointNumber(usb'.rx_ep)
          /\ usb'.txpipe.ep = EndpointNumber(usb'.tx_ep)
          /\ usb'.rxpipe.size = claimIn'.mps
          /\ usb'.txpipe.size = claimIn'.mps]_vars

\* C30 (as claimed): once a completion callback has written rx_buffer and
\* set rx_data_ready, the foreground neither clears the flag nor overwrites
\* the buffer before it has consumed them.  The acquisition loop is entered
\* with the flag clear and never reads the flag or the buffer, so a flag
\* found set there is a completion delivered and not consumed.
C30_MailboxKept ==
    [][(pc = "acq" /\ rx_data_ready /\ rxPending' >= rxPending)
         => (rx_data_ready' /\ rx_buffer' = rx_buffer)]_vars

\* C31 (as claimed): the outbound transfer queued for a command carries the
\* bytes of its frame, 6 to 47 of them, and nothing more.
C31_TransferIsFrame ==
    sent # <<>> => txLen = FrameLen(sent[Len(sent)])

\* the unsigned 32-bit little-endian value at tx_buffer[at..at + 3]
LE32(at) ==
    tx_buffer[at] + 256 * tx_buffer[at + 1] + 65536 * tx_buffer[at + 2]
        + 16777216 * tx_buffer[at + 3]

\* C32 (as claimed): the Prepare frame holds its 32-bit fields little-endian;
\* the averages count of 1 at bytes 18..21 is 01 00 00 00.
C32_PrepareLittleEndian ==
    (sent # <<>> /\ sent[Len(sent)] = CMD_PREPARE) =>
        /\ LE32(18) = 1
        /\ <<tx_buffer[18], tx_buffer[19], tx_buffer[20], tx_buffer[21]>> = <<1, 0, 0, 0>>

\* C33 (as claimed): the copy kept for the radio equals the frame that
\* measurementAcknowledgement dumped and logged in the same cycle, whatever
\* completes during the acknowledgement and the closing Stop.
C33_RadioCopyIsLoggedFrame ==
    (pc = "idle" /\ measurementCount > 0 /\ hasMeasurement)
        => lastMeasurement = logged.frame

\* the foreground is inside the response wait of a command function
ResponseWaits == {"stop_wait", "ident_wait", "prep_wait", "start_wait", "stop2_wait"}

\* C34 (as claimed): the completion that sets rx_data_ready during the wait
\* of a command is the one of the inbound transfer queued for that command.
\* Transfers on a pipe complete in the order they were queued, so it is
\* when no transfer queued earlier is still in flight.
C34_ReadyFromOwnTransfer ==
    [][(pc \in ResponseWaits /\ rxPending' = rxPending - 1) => rxPending = 1]_vars

\* C36: readFullMeasurement issues exactly nine chunk requests, at the
\* offsets 0, 512, ..., 4096; each wait ends with the flag or the deadline
\* and advances the count whether or not the transfer completed; the
\* function ends with all 4106 bytes counted.
C36_NineChunkRequests ==
    /\ [](pc \in {"b_read", "b_read_wait"}
             => bytesReceived \in {BUF_SIZE * k : k \in 0..(NumChunks - 1)})
    /\ [][(pc = "b_read_wait" /\ pc' # pc)
             => (bytesReceived' > bytesReceived /\ (rx_data_ready \/ Silent))]_vars
    /\ [](pc = "b_ack" => bytesReceived = MEAS_SIZE)
    /\ (pc = "b_read") ~> (pc = "b_ack")

\* C36 witness: the read loop has ended with all bytes counted although
\* its last request ran into the deadline with no transfer completed
C36_ReadEndedWithoutData ==
    /\ pc = "b_ack"
    /\ bytesReceived = MEAS_SIZE
    /\ ~rx_data_ready

\* C39: the chunk counter stays within 0..9 whatever chunks complete
C39_CounterInRange == measAmount \in 0..9

\* ------------------------------------------------------------------------
\* The radio downlink of a frame (transmitViaRadio of main.cpp)
\* ------------------------------------------------------------------------
RADIO_CHUNK_SIZE == 60

\* uint16_t arithmetic
UINT16 == 65536

\* uint8_t header[16]: snprintf keeps at most sizeof(header) - 1 characters
HEADER_ROOM == 15

\* the lengths transmitViaRadio is called with
RadioLens == {0, 1, 59, 60, 61, 120, 121, MEAS_SIZE, UINT16 - 1}

\* snprintf((char*)header, sizeof(header), "VIA:%u:", len), as sent with
\* strlen(header)
RadioHeader(len) ==
    LET text == <<"V", "I", "A", ":">> \o PrintDec(len) \o <<":">>
    IN  SubSeq(text, 1, IF Len(text) < HEADER_ROOM THEN Len(text) ELSE HEADER_ROOM)

\* uint8_t footer[] = ":END"
RadioFooter == <<":", "E", "N", "D">>

\* a loop that always sends a full packet
RadioChunk_Whole(len, done) == RADIO_CHUNK_SIZE

\* min((uint16_t)RADIO_CHUNK_SIZE, (uint16_t)(len - sent))
RadioChunk(len, done) ==
    LET rest == (len - done) % UINT16
    IN  IF rest < RADIO_CHUNK_SIZE THEN rest ELSE RADIO_CHUNK_SIZE

\* transmitViaRadio(data, len) is called: without the radio it returns;
\* with it the header packet is sent and the loop is reached
RadioCall ==
    /\ rpc = "idle"
    /\ \E len \in RadioLens :
          /\ rLen' = len
          /\ IF ~radioAvailable
               THEN /\ rpc' = "done"
                    /\ rAir' = rAir
               ELSE /\ rpc' = "data"
                    /\ rAir' = Append(rAir, [kind |-> "text", text |-> RadioHeader(len)])
    /\ rSent' = 0
    /\ UNCHANGED radioAvailable
    /\ UNCHANGED radRest

\* one iteration of while (sent < len): rf22.send(data + sent, chunkSize);
\* sent += chunkSize
RadioPacket ==
    /\ rpc = "data"
    /\ rSent < rLen
    /\ LET chunkSize == RadioChunk(rLen, rSent)
       IN  /\ rAir' = Append(rAir, [kind |-> "data", at |-> rSent, n |-> chunkSize])
           /\ rSent' = (rSent + chunkSize) % UINT16
    /\ UNCHANGED <<radioAvailable, rpc, rLen>>
    /\ UNCHANGED radRest

\* the loop is over: rf22.send(footer, sizeof(footer) - 1)
RadioEnd ==
    /\ rpc = "data"
    /\ ~(rSent < rLen)
    /\ rAir' = Append(rAir, [kind |-> "text", text |-> RadioFooter])
    /\ rpc' = "done"
    /\ UNCHANGED <<radioAvailable, rLen, rSent>>
    /\ UNCHANGED radRest

RadioNext ==
    \/ RadioCall
    \/ RadioPacket
    \/ RadioEnd

\* setup(): radioAvailable = initRadio()
RadioStart ==
    /\ BaseIdle
    /\ CsvIdle
    /\ TxIdle
    /\ FileIdle
    /\ NativeIdle
    /\ IntervalIdle
    /\ radioAvailable \in BOOLEAN
    /\ rpc = "idle"
    /\ rLen = 0
    /\ rSent = 0
    /\ rAir = <<>>

\* the function is straight-line code around one loop: it goes on
RadioSpec == RadioStart /\ [][RadioNext]_vars /\ WF_vars(RadioNext)

\* ------------------------------------------------------------------------
\* The period of the auto mode as the firmware stores it (processCommand of
\* main.cpp, "auto <seconds>")
\* ------------------------------------------------------------------------
\* the largest number of seconds whose milliseconds fit an unsigned long of
\* 32 bits: 4294967295 \div 1000
ULONG_SECONDS == 4294967

\* int on the 32-bit target
INT_MAX == 2147483647

\* the values String::toInt() hands to int seconds
SecondsIn == (-1..60) \cup {3600, 86400, ULONG_SECONDS, ULONG_SECONDS + 1, INT_MAX}

\* seconds x 1000 as a number of any size: high part (unreduced) and low
\* 16 bits
TimesThousand(n) ==
    LET low == (n % UINT16) * 1000
    IN  [hi |-> (n \div UINT16) * 1000 + low \div UINT16, lo |-> low % UINT16]

\* autoInterval = seconds * 1000UL: the product is kept modulo 2^32
StoreInterval(n) ==
    [hi |-> TimesThousand(n).hi % UINT16, lo |-> TimesThousand(n).lo]

\* an auto command with an argument is processed: if (seconds > 0)
\* autoInterval = seconds * 1000UL
AutoSeconds ==
    /\ \E n \in SecondsIn :
          /\ seconds' = n
          /\ intervalMs' = IF n > 0 THEN StoreInterval(n) ELSE intervalMs
    /\ UNCHANGED ivRest

IntervalNext == AutoSeconds

IntervalStart ==
    /\ BaseIdle
    /\ CsvIdle
    /\ TxIdle
    /\ FileIdle
    /\ NativeIdle
    /\ RadioIdle
    /\ IntervalIdle

IntervalSpec == IntervalStart /\ [][IntervalNext]_vars

\* the packets a transmission of len bytes consists of
PacketCount(len) == (len + RADIO_CHUNK_SIZE - 1) \div RADIO_CHUNK_SIZE

\* the data packets k of a transmission tile data[0..len): each starts
\* where the one before ended and none is longer than 60 bytes
Tiles(air, len) ==
    /\ \A k \in 2..(Len(air) - 1) :
          /\ air[k].kind = "data"
          /\ air[k].at = RADIO_CHUNK_SIZE * (k - 2)
          /\ air[k].n \in 1..RADIO_CHUNK_SIZE
          /\ air[k].at + air[k].n <= len
    /\ Len(air) > 2 => air[Len(air) - 1].at + air[Len(air) - 1].n = len
    /\ Len(air) = 2 => len = 0

\* C37: transmitViaRadio ends for every length; with the radio it has sent
\* the header "VIA:<len>:", ceil(len/60) data packets of at most 60 bytes
\* that tile data[0..len), and ":END", in this order; without the radio it
\* has sent nothing.
C37_RadioFraming ==
    /\ [](rpc = "done" =>
            IF radioAvailable
              THEN /\ Len(rAir) = PacketCount(rLen) + 2
                   /\ rAir[1].kind = "text"
                   /\ SubSeq(rAir[1].text, 1, 4) = <<"V", "I", "A", ":">>
                   /\ rAir[1].text[Len(rAir[1].text)] = ":"
                   /\ IsNumeral(SubSeq(rAir[1].text, 5, Len(rAir[1].text) - 1))
                   /\ DecVal(SubSeq(rAir[1].text, 5, Len(rAir[1].text) - 1)) = rLen
                   /\ Tiles(rAir, rLen)
                   /\ rAir[Len(rAir)] = [kind |-> "text", text |-> <<":", "E", "N", "D">>]
              ELSE rAir = <<>>)
    /\ (rpc = "idle") ~> (rpc = "done")

\* C37 witness: the longest transmission is over: header, 1093 data
\* packets, end marker
C37_LongestSent ==
    /\ rpc = "done"
    /\ radioAvailable
    /\ rLen = UINT16 - 1
    /\ Len(rAir) = 1095
    /\ rAir[1094] = [kind |-> "data", at |-> 65520, n |-> 15]

\* C38: after an accepted auto <seconds> the stored period is
\* seconds x 1000 milliseconds
C38_IntervalIsSecondsTimes1000 ==
    seconds > 0 => intervalMs = TimesThousand(seconds)

====
